---- MODULE Spec2Model ----
(***************************************************************************)
(* QuickLendX invoice-factoring contract: the invoice funding lifecycle    *)
(* (invoice status machine and status indices, bids, escrow, investment,   *)
(* settlement, default, reentrancy guard) as a state machine.              *)
(*                                                                         *)
(* Every public entry point is an operator from a working store and a call *)
(* record to [res, st].  The host commits st when res = "Ok" and discards  *)
(* every write of the invocation otherwise (HostInvoke).                   *)
(***************************************************************************)
EXTENDS Integers, Sequences, FiniteSets, TLC

\* ---------------------------------------------------------------- bounds
MaxInvoices == 1
MaxBids == 2
MaxStatusUpdates == 1
MaxInsurance == 2
MaxRankedBids == 3
MaxRankTime == 1

\* ------------------------------------------------------ program constants
DEFAULT_GRACE_PERIOD == 604800
DEFAULT_BID_TTL == 604800
DEFAULT_PLATFORM_FEE_BPS == 200
BPS_DENOMINATOR == 10000
MAX_DISPUTE_REASON_LENGTH == 500
MAX_DISPUTE_EVIDENCE_LENGTH == 1000
MAX_DISPUTE_RESOLUTION_LENGTH == 500
DEFAULT_INSURANCE_PREMIUM_BPS == 200
\* i128::MAX at a width of 24 bits: products with a percentage or with the
\* premium rate stay within the range of the model checker's integers.
I128_MAX == 8388607

\* ----------------------------------------------------------- input sets
Admin == "adm"
Businesses == {"biz"}
Investors == {"inv1"}
Currencies == {"cur1", "cur2"}
DueDates == {2592000}
BidAmounts == {0, 800}
Returns == {50}
Payments == {600, 1000}
FeeBps == {0, 200, 333, 10000}
Principals == {800, 1000}
Providers == {"prov1", "prov2"}
InvoiceCategory == {"Services", "Products"}
Tags == {"urgent", "tech"}
TagLists == {<< >>, <<"tech">>, <<"urgent", "tech">>}
Coverages == {0, 50, 150}
RankedTerms == {<<800, 850>>, <<800, 900>>, <<1000, 1050>>, <<1600, 1700>>}
StoredAmounts == {0 - 10, 50, 500, 1000, 10000, I128_MAX}
StoredCoverages == {0, 1, 80, 100, 150}
Graces == {-1, 0}

InvoiceStatus == {"Pending", "Verified", "Funded", "Paid", "Defaulted", "Cancelled"}
BidStatus == {"Placed", "Accepted", "Withdrawn", "Expired"}
EscrowStatus == {"Funded", "Released", "Refunded"}
InvestmentStatus == {"Active", "Completed", "Defaulted", "Withdrawn"}
DisputeStatus == {"None", "Disputed", "UnderReview", "Resolved"}

VARIABLES invoices, idx, bids, escrows, investments, guard, admin, custody,
          now, updates, verification_admin, fee_bps, category_idx, tag_idx

vars == <<invoices, idx, bids, escrows, investments, guard, admin, custody,
          now, updates, verification_admin, fee_bps, category_idx, tag_idx>>

\* ------------------------------------------------------------ call records
NoNest == [op |-> "none", signer |-> "none", inv |-> 0, bid |-> 0, amt |-> 0, ok |-> TRUE]

Call(op, signer, inv, bid, amt) ==
    [op |-> op, signer |-> signer, inv |-> inv, bid |-> bid, amt |-> amt,
     addr |-> signer, ret |-> 0, cur |-> "cur1", due |-> 0, desc |-> 1, status |-> "Pending",
     grace |-> -1, ver |-> "None", limit |-> 0, allowed |-> TRUE,
     bizver |-> TRUE, ok |-> TRUE, nest |-> NoNest,
     pay |-> 0, category |-> "Services", tags |-> << >>, tag |-> "none", investment |-> 0, provider |-> "none", pct |-> 0, reason |-> 1, evidence |-> 1, resolution |-> 1, depth |-> 0, probe |-> FALSE, nres |-> "none", nst |-> << >>]

\* The store an invocation works on: the persistent entries, the ledger
\* timestamp, and what the invocation observed of a nested call.
St == [invoices |-> invoices, idx |-> idx, bids |-> bids, escrows |-> escrows,
       investments |-> investments, guard |-> guard, admin |-> admin,
       custody |-> custody, now |-> now, verification_admin |-> verification_admin,
       fee_bps |-> fee_bps, nested |-> "none", moved |-> FALSE, payout |-> << >>,
       ranked |-> << >>, category_idx |-> category_idx, tag_idx |-> tag_idx]

Ok(S) == [res |-> "Ok", st |-> S]
Err(S, e) == [res |-> e, st |-> S]

\* ---------------------------------------------------------------- helpers
RemoveId(s, id) == SelectSeq(s, LAMBDA x : x # id)
Contains(s, id) == \E k \in 1..Len(s) : s[k] = id

Put(f, k, v) == [x \in (DOMAIN f) \cup {k} |-> IF x = k THEN v ELSE f[x]]

\* ------------------------------------------------------------ InvoiceStorage
remove_from_status_invoices(S, status, id) ==
    [S EXCEPT !.idx[status] = RemoveId(@, id)]

add_to_status_invoices(S, status, id) ==
    IF Contains(S.idx[status], id) THEN S
    ELSE [S EXCEPT !.idx[status] = Append(@, id)]

update_invoice(S, id, invoice) == [S EXCEPT !.invoices[id] = invoice]

add_category_index(S, category, id) ==
    IF Contains(S.category_idx[category], id) THEN S
    ELSE [S EXCEPT !.category_idx[category] = Append(@, id)]

remove_category_index(S, category, id) ==
    [S EXCEPT !.category_idx[category] = RemoveId(@, id)]

add_tag_index(S, tag, id) ==
    IF Contains(S.tag_idx[tag], id) THEN S
    ELSE [S EXCEPT !.tag_idx[tag] = Append(@, id)]

remove_tag_index(S, tag, id) ==
    [S EXCEPT !.tag_idx[tag] = RemoveId(@, id)]

\* Invoice::add_tag and Invoice::remove_tag: [res, invoice].
add_tag(invoice, tag) ==
    IF Contains(invoice.tags, tag) THEN [res |-> "Ok", invoice |-> invoice]
    ELSE [res |-> "Ok", invoice |-> [invoice EXCEPT !.tags = Append(@, tag)]]

remove_tag(invoice, tag) ==
    IF ~Contains(invoice.tags, tag) THEN [res |-> "InvalidTag", invoice |-> invoice]
    ELSE [res |-> "Ok", invoice |-> [invoice EXCEPT !.tags = RemoveId(@, tag)]]

NoDispute ==
    [created_by |-> "none", created_at |-> 0, reason |-> 0, evidence |-> 0,
     resolution |-> 0, resolved_by |-> "none", resolved_at |-> 0]

InvoiceNew(business, amount, currency, due_date, category, tags) ==
    [business |-> business, amount |-> amount, currency |-> currency,
     due_date |-> due_date, category |-> category, tags |-> tags,
     status |-> "Pending", total_paid |-> 0,
     investor |-> "none", dispute_status |-> "None", dispute |-> NoDispute]

InvoiceStorage_store_invoice(S, invoice) ==
    LET id == Len(S.invoices) + 1
        S1 == [S EXCEPT !.invoices = Append(@, invoice),
                        !.tag_idx = [t \in DOMAIN @ |->
                            IF Contains(invoice.tags, t) /\ ~Contains(@[t], id)
                            THEN Append(@[t], id) ELSE @[t]]]
    IN add_category_index(add_to_status_invoices(S1, invoice.status, id),
                          invoice.category, id)

\* ------------------------------------------------------------ Invoice methods
verify(invoice) == [invoice EXCEPT !.status = "Verified"]
mark_as_paid(invoice) == [invoice EXCEPT !.status = "Paid"]
mark_as_defaulted(invoice) == [invoice EXCEPT !.status = "Defaulted"]
mark_as_funded(invoice, investor, funded_amount) ==
    [invoice EXCEPT !.status = "Funded", !.investor = investor]
CanCancel(invoice) == invoice.status \in {"Pending", "Verified"}
cancel(invoice) == [invoice EXCEPT !.status = "Cancelled"]

\* ---------------------------------------------------------------- BidStorage
is_expired(bid, t) == t > bid.expiration_timestamp
default_expiration(t) == t + DEFAULT_BID_TTL

cleanup_expired_bids(S, invoice_id) ==
    [S EXCEPT !.bids = [b \in DOMAIN S.bids |->
        IF S.bids[b].invoice_id = invoice_id /\ S.bids[b].status = "Placed"
           /\ is_expired(S.bids[b], S.now)
        THEN [S.bids[b] EXCEPT !.status = "Expired"] ELSE S.bids[b]]]

\* --------------------------------------------------------- InvestmentStorage
InvOfInvoice(S, invoice_id) ==
    {k \in DOMAIN S.investments : S.investments[k].invoice_id = invoice_id}

MinOf(set) == CHOOSE m \in set : \A n \in set : m <= n

SetInvestmentStatus(S, invoice_id, status) ==
    IF InvOfInvoice(S, invoice_id) = {} THEN S
    ELSE [S EXCEPT !.investments[MinOf(InvOfInvoice(S, invoice_id))].status = status]

\* ------------------------------------------------------------------ ranking
\* BidStorage::compare_bids: bid a ranks before bid b when its expected return
\* relative to its amount is lower, then when it was placed earlier, then when
\* its identifier is lower.
ranks_before_no_id(S, a, b) ==
    \/ S.bids[a].expected_return * S.bids[b].bid_amount
          < S.bids[b].expected_return * S.bids[a].bid_amount
    \/ /\ S.bids[a].expected_return * S.bids[b].bid_amount
            = S.bids[b].expected_return * S.bids[a].bid_amount
       /\ S.bids[a].timestamp < S.bids[b].timestamp

ranks_before(S, a, b) ==
    \/ S.bids[a].expected_return * S.bids[b].bid_amount
          < S.bids[b].expected_return * S.bids[a].bid_amount
    \/ /\ S.bids[a].expected_return * S.bids[b].bid_amount
            = S.bids[b].expected_return * S.bids[a].bid_amount
       /\ \/ S.bids[a].timestamp < S.bids[b].timestamp
          \/ /\ S.bids[a].timestamp = S.bids[b].timestamp
             /\ a < b

\* The sort of a list of bid identifiers: each is inserted behind the bids it
\* does not rank before.
sort_bids(S, list) ==
    LET Sorted[k \in 0..Len(list)] ==
            IF k = 0 THEN << >>
            ELSE SelectSeq(Sorted[k - 1], LAMBDA y : ~ranks_before(S, list[k], y))
                 \o <<list[k]>> \o
                 SelectSeq(Sorted[k - 1], LAMBDA y : ranks_before(S, list[k], y))
    IN Sorted[Len(list)]

\* The identifiers of the non-terminal bids of an invoice, in stored order.
rankable_bids(S, invoice_id) ==
    SelectSeq([k \in 1..Len(S.bids) |-> k],
              LAMBDA b : S.bids[b].invoice_id = invoice_id /\ S.bids[b].status = "Placed")

rank_bids(S, invoice_id) == sort_bids(S, rankable_bids(S, invoice_id))

\* BidStorage::get_best_bid: << >> for None.
get_best_bid(S, invoice_id) ==
    IF rank_bids(S, invoice_id) = << >> THEN << >>
    ELSE <<rank_bids(S, invoice_id)[1]>>

\* ------------------------------------------------------------------ insurance
\* Investment::calculate_premium: the premium of a coverage at the fixed
\* rate, at least 1 for a positive coverage.
\* i128::saturating_mul with the product unclamped.
saturating_mul_unbounded(a, b) == a * b

\* i128::saturating_mul.
saturating_mul(a, b) ==
    IF a * b > I128_MAX THEN I128_MAX
    ELSE IF a * b < 0 - I128_MAX - 1 THEN 0 - I128_MAX - 1
    ELSE a * b

coverage_amount(amount, coverage_percentage) ==
    saturating_mul(amount, coverage_percentage) \div 100

\* calculate_premium without the minimum of 1.
calculate_premium_floor(amount, coverage_percentage) ==
    IF amount <= 0 \/ coverage_percentage = 0 THEN 0
    ELSE saturating_mul(coverage_amount(amount, coverage_percentage),
                        DEFAULT_INSURANCE_PREMIUM_BPS) \div BPS_DENOMINATOR

calculate_premium(amount, coverage_percentage) ==
    IF amount <= 0 \/ coverage_percentage = 0 THEN 0
    ELSE IF saturating_mul(coverage_amount(amount, coverage_percentage),
                           DEFAULT_INSURANCE_PREMIUM_BPS) \div BPS_DENOMINATOR = 0
              /\ coverage_amount(amount, coverage_percentage) > 0
         THEN 1
    ELSE saturating_mul(coverage_amount(amount, coverage_percentage),
                        DEFAULT_INSURANCE_PREMIUM_BPS) \div BPS_DENOMINATOR

has_active_insurance(investment) ==
    \E j \in DOMAIN investment.insurance : investment.insurance[j].active

\* add_insurance replacing the active entry instead of refusing.
add_insurance_replacing(investment, provider, coverage_percentage, premium) ==
    IF coverage_percentage = 0 \/ coverage_percentage > 100
    THEN [res |-> "InvalidCoveragePercentage", investment |-> investment]
    ELSE IF premium <= 0 THEN [res |-> "InvalidAmount", investment |-> investment]
    ELSE [res |-> "Ok",
          investment |-> [investment EXCEPT !.insurance =
              Append(SelectSeq(@, LAMBDA e : ~e.active),
              [provider |-> provider, coverage_percentage |-> coverage_percentage,
               coverage_amount |-> coverage_amount(investment.amount, coverage_percentage),
               premium_amount |-> premium, active |-> TRUE])]]

\* add_insurance taking a percentage above 100 as 100.
add_insurance_clamping(investment, provider, coverage_percentage, premium) ==
    IF coverage_percentage = 0
    THEN [res |-> "InvalidCoveragePercentage", investment |-> investment]
    ELSE IF premium <= 0 THEN [res |-> "InvalidAmount", investment |-> investment]
    ELSE IF has_active_insurance(investment)
         THEN [res |-> "OperationNotAllowed", investment |-> investment]
    ELSE [res |-> "Ok",
          investment |-> [investment EXCEPT !.insurance = Append(@,
              [provider |-> provider,
               coverage_percentage |-> MinOf({coverage_percentage, 100}),
               coverage_amount |->
                   coverage_amount(investment.amount, MinOf({coverage_percentage, 100})),
               premium_amount |-> premium, active |-> TRUE])]]

\* Investment::add_insurance: [res, investment].
add_insurance(investment, provider, coverage_percentage, premium) ==
    IF coverage_percentage = 0 \/ coverage_percentage > 100
    THEN [res |-> "InvalidCoveragePercentage", investment |-> investment]
    ELSE IF premium <= 0 THEN [res |-> "InvalidAmount", investment |-> investment]
    ELSE IF has_active_insurance(investment)
         THEN [res |-> "OperationNotAllowed", investment |-> investment]
    ELSE [res |-> "Ok",
          investment |-> [investment EXCEPT !.insurance = Append(@,
              [provider |-> provider, coverage_percentage |-> coverage_percentage,
               coverage_amount |-> coverage_amount(investment.amount, coverage_percentage),
               premium_amount |-> premium, active |-> TRUE])]]

\* The position of the first active entry, 0 if there is none.
first_active(investment) ==
    IF has_active_insurance(investment)
    THEN CHOOSE j \in DOMAIN investment.insurance :
            /\ investment.insurance[j].active
            /\ \A k \in 1..(j - 1) : ~investment.insurance[k].active
    ELSE 0

\* process_insurance_claim paying out without deactivating the entry.
process_insurance_claim_keeping(investment) ==
    IF first_active(investment) = 0 THEN [claim |-> << >>, investment |-> investment]
    ELSE [claim |-> <<investment.insurance[first_active(investment)].provider,
                      investment.insurance[first_active(investment)].coverage_amount>>,
          investment |-> investment]

\* Investment::process_insurance_claim: [claim, investment]; claim is
\* <<provider, coverage_amount>> of the active entry, which is deactivated, or
\* << >> (None) if no entry is active.
process_insurance_claim(investment) ==
    IF first_active(investment) = 0 THEN [claim |-> << >>, investment |-> investment]
    ELSE [claim |-> <<investment.insurance[first_active(investment)].provider,
                      investment.insurance[first_active(investment)].coverage_amount>>,
          investment |-> [investment EXCEPT
                            !.insurance[first_active(investment)].active = FALSE]]

\* ------------------------------------------------------------------ auth
require_auth(c, addr) == c.signer = addr

\* ------------------------------------------------------------ reentrancy
\* reentrancy::with_payment_guard: reject when the flag is set, otherwise set
\* it, run the body and clear it on every exit path.  r is the result of the
\* body run on guard_set(S).
guard_set(S) == [S EXCEPT !.guard = TRUE]

with_payment_guard(S, r) ==
    IF S.guard THEN Err(S, "OperationNotAllowed")
    ELSE [r EXCEPT !.st.guard = FALSE]

\* ------------------------------------------------------------------ payments
\* The value-transfer primitive: moves funds or fails (c.ok).  The token
\* contract it calls may call back into one entry point of this contract
\* before the transfer completes: c.nres and c.nst are the result and the store
\* of that nested frame, run on the store as it is at this point (Invoke); the
\* writes of a failed nested frame are discarded.  delta is the change of the
\* contract's own holding of the currency.  With c.probe the primitive only
\* reports the store it was reached with.
transfer_funds(S, cur, delta, c) ==
    IF c.probe
    THEN Err([S EXCEPT !.nested = IF S.guard THEN "held" ELSE "free"], "AtTransfer")
    ELSE LET S1 == IF c.nres = "none" THEN S
                   ELSE IF c.nres = "Ok" THEN [c.nst EXCEPT !.nested = "Ok"]
                   ELSE [S EXCEPT !.nested = c.nres]
         IN IF ~c.ok THEN Err(S1, "InsufficientFunds")
            ELSE Ok([S1 EXCEPT !.custody[cur] = @ + delta,
                               !.moved = IF c.depth = 1 THEN TRUE ELSE @])

create_escrow(S, invoice_id, investor, business, amount, currency, c) ==
    IF amount <= 0 THEN Err(S, "InvalidAmount")
    ELSE IF invoice_id \in DOMAIN S.escrows THEN Err(S, "InvoiceAlreadyFunded")
    ELSE LET t == transfer_funds(S, currency, amount, c)
         IN IF t.res # "Ok" THEN t
            ELSE Ok([t.st EXCEPT !.escrows = Put(@, invoice_id,
                        [invoice_id |-> invoice_id, investor |-> investor,
                         business |-> business, amount |-> amount,
                         currency |-> currency, status |-> "Funded"])])

\* release_escrow without the check that the escrow is still Funded.
release_escrow_unchecked(S, invoice_id, c) ==
    IF invoice_id \notin DOMAIN S.escrows THEN Err(S, "StorageKeyNotFound")
    ELSE LET e == S.escrows[invoice_id]
             t == transfer_funds(S, e.currency, 0 - e.amount, c)
         IN IF t.res # "Ok" THEN t
            ELSE Ok([t.st EXCEPT !.escrows[invoice_id].status = "Released"])

release_escrow(S, invoice_id, c) ==
    IF invoice_id \notin DOMAIN S.escrows THEN Err(S, "StorageKeyNotFound")
    ELSE IF S.escrows[invoice_id].status # "Funded" THEN Err(S, "InvalidStatus")
    ELSE LET e == S.escrows[invoice_id]
             t == transfer_funds(S, e.currency, 0 - e.amount, c)
         IN IF t.res # "Ok" THEN t
            ELSE Ok([t.st EXCEPT !.escrows[invoice_id].status = "Released"])

refund_escrow(S, invoice_id, c) ==
    IF invoice_id \notin DOMAIN S.escrows THEN Err(S, "StorageKeyNotFound")
    ELSE IF S.escrows[invoice_id].status # "Funded" THEN Err(S, "InvalidStatus")
    ELSE LET e == S.escrows[invoice_id]
             t == transfer_funds(S, e.currency, 0 - e.amount, c)
         IN IF t.res # "Ok" THEN t
            ELSE Ok([t.st EXCEPT !.escrows[invoice_id].status = "Refunded"])

\* -------------------------------------------------------------------- escrow
do_refund_escrow_funds(S, c) ==
    IF c.inv \notin DOMAIN S.invoices THEN Err(S, "InvoiceNotFound")
    ELSE IF ~require_auth(c, c.signer) THEN Err(S, "AuthFailed")
    ELSE IF c.signer # S.admin /\ c.signer # S.invoices[c.inv].business
         THEN Err(S, "Unauthorized")
    ELSE IF S.invoices[c.inv].status # "Funded" THEN Err(S, "InvalidStatus")
    ELSE refund_escrow(S, c.inv, c)

do_accept_bid_and_fund(S, c) ==
    IF c.inv \notin DOMAIN S.invoices THEN Err(S, "InvoiceNotFound")
    ELSE IF c.bid \notin DOMAIN S.bids THEN Err(S, "StorageKeyNotFound")
    ELSE IF ~require_auth(c, S.invoices[c.inv].business) THEN Err(S, "AuthFailed")
    ELSE LET S1 == cleanup_expired_bids(S, c.inv)
             invoice == S1.invoices[c.inv]
             bid == S1.bids[c.bid]
         IN IF bid.invoice_id # c.inv THEN Err(S1, "Unauthorized")
            ELSE IF invoice.status # "Verified" \/ bid.status # "Placed"
                 THEN Err(S1, "InvalidStatus")
            ELSE LET e == create_escrow(S1, c.inv, bid.investor, invoice.business,
                                        bid.bid_amount, invoice.currency, c)
                 IN IF e.res # "Ok" THEN e
                    ELSE LET S2 == remove_from_status_invoices(e.st, "Verified", c.inv)
                             S3 == [S2 EXCEPT
                                      !.bids[c.bid] = [bid EXCEPT !.status = "Accepted"],
                                      !.invoices[c.inv] =
                                          mark_as_funded(invoice, bid.investor, bid.bid_amount),
                                      !.investments = Append(@,
                                          [invoice_id |-> c.inv, investor |-> bid.investor,
                                           amount |-> bid.bid_amount, status |-> "Active",
                                      insurance |-> << >>])]
                         IN Ok(add_to_status_invoices(S3, "Funded", c.inv))

\* ------------------------------------------------------------------ profits
\* profits::calculate_profit: (investor return, platform fee) of a payment on
\* an investment at the configured basis points.
do_calculate_profit(S, investment_amount, payment_amount) ==
    LET profit == payment_amount - investment_amount
        platform_fee == IF profit <= 0 THEN 0
                        ELSE (profit * S.fee_bps) \div BPS_DENOMINATOR
    IN <<payment_amount - platform_fee, platform_fee>>

PlatformFee_set_config(S, c, admin_addr) ==
    IF ~require_auth(c, admin_addr) THEN Err(S, "AuthFailed")
    ELSE IF c.amt < 0 \/ c.amt > BPS_DENOMINATOR THEN Err(S, "InvalidAmount")
    ELSE Ok([S EXCEPT !.fee_bps = c.amt])

\* What a full settlement pays out: the split of the payment between the
\* investor of the invoice and the platform.
settlement_payout(S, invoice_id, payment_amount) ==
    IF InvOfInvoice(S, invoice_id) = {} THEN S
    ELSE [S EXCEPT !.payout =
            do_calculate_profit(S, S.investments[MinOf(InvOfInvoice(S, invoice_id))].amount,
                                payment_amount)]

\* ---------------------------------------------------------------- settlement
apply_payment(S, c) ==
    IF c.inv \notin DOMAIN S.invoices THEN Err(S, "InvoiceNotFound")
    ELSE IF c.amt <= 0 THEN Err(S, "InvalidAmount")
    ELSE IF S.invoices[c.inv].status # "Funded" THEN Err(S, "InvalidStatus")
    ELSE LET invoice == S.invoices[c.inv]
             outstanding == invoice.amount - invoice.total_paid
             t == transfer_funds(S, invoice.currency, 0, c)
         IN IF t.res # "Ok" THEN t
            ELSE IF c.amt >= outstanding
            THEN LET S1 == remove_from_status_invoices(t.st, "Funded", c.inv)
                     S2 == update_invoice(S1, c.inv, mark_as_paid(invoice))
                     S3 == add_to_status_invoices(S2, "Paid", c.inv)
                 IN Ok(settlement_payout(SetInvestmentStatus(S3, c.inv, "Completed"),
                                         c.inv, c.amt))
            ELSE Ok(update_invoice(t.st, c.inv,
                                   [invoice EXCEPT !.total_paid = @ + c.amt]))

do_settle_invoice(S, c) == apply_payment(S, c)

do_process_partial_payment(S, c) == apply_payment(S, c)

\* ------------------------------------------------------------------ defaults
grace_deadline(invoice, grace) == invoice.due_date + grace

default_transition(S, id) ==
    LET S1 == remove_from_status_invoices(S, "Funded", id)
        S2 == update_invoice(S1, id, mark_as_defaulted(S.invoices[id]))
        S3 == add_to_status_invoices(S2, "Defaulted", id)
    IN SetInvestmentStatus(S3, id, "Defaulted")

do_mark_invoice_defaulted(S, id, grace_period) ==
    IF id \notin DOMAIN S.invoices THEN Err(S, "InvoiceNotFound")
    ELSE IF S.invoices[id].status # "Funded" THEN Err(S, "InvoiceNotAvailableForFunding")
    ELSE LET grace == IF grace_period < 0 THEN DEFAULT_GRACE_PERIOD ELSE grace_period
         IN IF S.now < grace_deadline(S.invoices[id], grace)
            THEN Err(S, "OperationNotAllowed")
            ELSE Ok(default_transition(S, id))

do_handle_default(S, id) == do_mark_invoice_defaulted(S, id, DEFAULT_GRACE_PERIOD)

\* Invoice::check_and_handle_expiration: the expiration check of one invoice,
\* which defaults a Funded invoice whose grace deadline has been reached and
\* reports, without an error, that nothing was due otherwise.
check_and_handle_expiration(S, id, grace_period) ==
    IF S.invoices[id].status # "Funded" THEN Ok(S)
    ELSE IF S.now < grace_deadline(S.invoices[id], grace_period) THEN Ok(S)
    ELSE Ok(default_transition(S, id))

\* ------------------------------------------------------------------ disputes
\* Texts are modelled by their lengths.
is_stakeholder(invoice, creator) ==
    creator = invoice.business \/ (invoice.investor # "none" /\ creator = invoice.investor)

do_create_dispute(S, c) ==
    IF ~require_auth(c, c.addr) THEN Err(S, "AuthFailed")
    ELSE IF c.inv \notin DOMAIN S.invoices THEN Err(S, "InvoiceNotFound")
    ELSE IF S.invoices[c.inv].dispute_status # "None" THEN Err(S, "DisputeAlreadyExists")
    ELSE IF ~is_stakeholder(S.invoices[c.inv], c.addr) THEN Err(S, "DisputeNotAuthorized")
    ELSE IF c.reason < 1 \/ c.reason > MAX_DISPUTE_REASON_LENGTH
         THEN Err(S, "InvalidDisputeReason")
    ELSE IF c.evidence < 1 \/ c.evidence > MAX_DISPUTE_EVIDENCE_LENGTH
         THEN Err(S, "InvalidDisputeEvidence")
    ELSE Ok([S EXCEPT !.invoices[c.inv].dispute_status = "Disputed",
                      !.invoices[c.inv].dispute =
                          [created_by |-> c.addr, created_at |-> S.now,
                           reason |-> c.reason, evidence |-> c.evidence,
                           resolution |-> 0, resolved_by |-> "none", resolved_at |-> 0]])

require_dispute_admin(S, c) ==
    IF ~require_auth(c, c.addr) THEN "AuthFailed"
    ELSE IF S.verification_admin = "none" THEN "NotAdmin"
    ELSE IF c.addr # S.verification_admin THEN "Unauthorized"
    ELSE "Ok"

do_put_dispute_under_review(S, c) ==
    IF require_dispute_admin(S, c) # "Ok" THEN Err(S, require_dispute_admin(S, c))
    ELSE IF c.inv \notin DOMAIN S.invoices THEN Err(S, "InvoiceNotFound")
    ELSE IF S.invoices[c.inv].dispute_status # "Disputed" THEN Err(S, "DisputeNotFound")
    ELSE Ok([S EXCEPT !.invoices[c.inv].dispute_status = "UnderReview"])

do_resolve_dispute(S, c) ==
    IF require_dispute_admin(S, c) # "Ok" THEN Err(S, require_dispute_admin(S, c))
    ELSE IF c.inv \notin DOMAIN S.invoices THEN Err(S, "InvoiceNotFound")
    ELSE IF S.invoices[c.inv].dispute_status # "UnderReview"
         THEN Err(S, "DisputeNotUnderReview")
    ELSE IF c.resolution < 1 \/ c.resolution > MAX_DISPUTE_RESOLUTION_LENGTH
         THEN Err(S, "InvalidDisputeReason")
    ELSE Ok([S EXCEPT !.invoices[c.inv].dispute_status = "Resolved",
                      !.invoices[c.inv].dispute.resolution = c.resolution,
                      !.invoices[c.inv].dispute.resolved_by = c.addr,
                      !.invoices[c.inv].dispute.resolved_at = S.now])

\* ------------------------------------------------- contract entry points
initialize_admin(S, c) ==
    IF S.admin # "none" THEN Err(S, "AdminAlreadyInitialized")
    ELSE IF ~require_auth(c, c.addr) THEN Err(S, "AuthFailed")
    ELSE Ok([S EXCEPT !.admin = c.addr])

\* AdminStorage::set_admin: the current administrator hands over to new_admin.
AdminStorage_set_admin(S, c, current_admin, new_admin) ==
    IF ~require_auth(c, current_admin) THEN Err(S, "AuthFailed")
    ELSE Ok([S EXCEPT !.admin = new_admin])

transfer_admin(S, c) ==
    IF S.admin = "none" THEN Err(S, "NotAdmin")
    ELSE AdminStorage_set_admin(S, c, S.admin, c.addr)

\* store_invoice without the check of the due date.
store_invoice_any_due_date(S, c) ==
    IF c.amt <= 0 THEN Err(S, "InvalidAmount")
    ELSE IF c.desc = 0 THEN Err(S, "InvalidDescription")
    ELSE IF ~c.allowed THEN Err(S, "InvalidCurrency")
    ELSE Ok(InvoiceStorage_store_invoice(S, InvoiceNew(c.addr, c.amt, c.cur, c.due, c.category, c.tags)))

store_invoice(S, c) ==
    IF c.amt <= 0 THEN Err(S, "InvalidAmount")
    ELSE IF c.due <= S.now THEN Err(S, "InvoiceDueDateInvalid")
    ELSE IF c.desc = 0 THEN Err(S, "InvalidDescription")
    ELSE IF ~c.allowed THEN Err(S, "InvalidCurrency")
    ELSE Ok(InvoiceStorage_store_invoice(S, InvoiceNew(c.addr, c.amt, c.cur, c.due, c.category, c.tags)))

upload_invoice(S, c) ==
    IF ~require_auth(c, c.addr) THEN Err(S, "AuthFailed")
    ELSE IF ~c.bizver THEN Err(S, "BusinessNotVerified")
    ELSE store_invoice(S, c)

release_escrow_funds(S, c) ==
    with_payment_guard(S,
        IF c.inv \notin DOMAIN S.escrows THEN Err(guard_set(S), "StorageKeyNotFound")
        ELSE release_escrow(guard_set(S), c.inv, c))

refund_escrow_funds(S, c) ==
    with_payment_guard(S, do_refund_escrow_funds(guard_set(S), c))

accept_bid_and_fund(S, c) ==
    with_payment_guard(S, do_accept_bid_and_fund(guard_set(S), c))

verify_invoice(S, c) ==
    IF S.admin = "none" THEN Err(S, "NotAdmin")
    ELSE IF ~require_auth(c, S.admin) THEN Err(S, "AuthFailed")
    ELSE IF c.inv \notin DOMAIN S.invoices THEN Err(S, "InvoiceNotFound")
    ELSE IF S.invoices[c.inv].status # "Pending" THEN Err(S, "InvalidStatus")
    ELSE LET S1 == remove_from_status_invoices(S, "Pending", c.inv)
             invoice == verify(S.invoices[c.inv])
             S2 == update_invoice(S1, c.inv, invoice)
             S3 == add_to_status_invoices(S2, "Verified", c.inv)
         IN IF invoice.status = "Funded"
            THEN release_escrow_funds(S3, c)
            ELSE Ok(S3)

\* cancel_invoice cancelling from any status.
cancel_invoice_any_status(S, c) ==
    IF c.inv \notin DOMAIN S.invoices THEN Err(S, "InvoiceNotFound")
    ELSE IF ~require_auth(c, S.invoices[c.inv].business) THEN Err(S, "AuthFailed")
    ELSE Ok(add_to_status_invoices(
                update_invoice(
                    remove_from_status_invoices(S, S.invoices[c.inv].status, c.inv),
                    c.inv, cancel(S.invoices[c.inv])),
                "Cancelled", c.inv))

cancel_invoice(S, c) ==
    IF c.inv \notin DOMAIN S.invoices THEN Err(S, "InvoiceNotFound")
    ELSE LET invoice == S.invoices[c.inv]
         IN IF ~require_auth(c, invoice.business) THEN Err(S, "AuthFailed")
            ELSE LET S1 == remove_from_status_invoices(S, invoice.status, c.inv)
                 IN IF ~CanCancel(invoice) THEN Err(S1, "InvalidStatus")
                    ELSE LET S2 == update_invoice(S1, c.inv, cancel(invoice))
                         IN Ok(add_to_status_invoices(S2, "Cancelled", c.inv))

update_invoice_status(S, c) ==
    IF c.inv \notin DOMAIN S.invoices THEN Err(S, "InvoiceNotFound")
    ELSE LET old == S.invoices[c.inv]
             S1 == remove_from_status_invoices(S, old.status, c.inv)
         IN IF c.status \notin {"Verified", "Paid", "Defaulted", "Funded"}
            THEN Err(S1, "InvalidStatus")
            ELSE LET invoice == CASE c.status = "Verified" -> verify(old)
                                  [] c.status = "Paid" -> mark_as_paid(old)
                                  [] c.status = "Defaulted" -> mark_as_defaulted(old)
                                  [] c.status = "Funded" ->
                                       mark_as_funded(old, old.business, old.amount)
                     S2 == update_invoice(S1, c.inv, invoice)
                 IN Ok(add_to_status_invoices(S2, invoice.status, c.inv))

validate_bid(S, invoice, bid_amount, expected_return, investor) == TRUE

\* place_bid without the checks of the investor's verification record.
place_bid_unverified(S, c) ==
    IF ~require_auth(c, c.addr) THEN Err(S, "AuthFailed")
    ELSE IF c.amt <= 0 THEN Err(S, "InvalidAmount")
    ELSE IF c.inv \notin DOMAIN S.invoices THEN Err(S, "InvoiceNotFound")
    ELSE IF S.invoices[c.inv].status # "Verified" THEN Err(S, "InvalidStatus")
    ELSE IF ~c.allowed THEN Err(S, "InvalidCurrency")
    ELSE Ok([cleanup_expired_bids(S, c.inv) EXCEPT !.bids = Append(@,
              [invoice_id |-> c.inv, investor |-> c.addr,
               bid_amount |-> c.amt, expected_return |-> c.ret,
               timestamp |-> S.now, status |-> "Placed",
               expiration_timestamp |-> default_expiration(S.now)])])

place_bid(S, c) ==
    IF ~require_auth(c, c.addr) THEN Err(S, "AuthFailed")
    ELSE IF c.amt <= 0 THEN Err(S, "InvalidAmount")
    ELSE IF c.inv \notin DOMAIN S.invoices THEN Err(S, "InvoiceNotFound")
    ELSE IF S.invoices[c.inv].status # "Verified" THEN Err(S, "InvalidStatus")
    ELSE IF ~c.allowed THEN Err(S, "InvalidCurrency")
    ELSE IF c.ver = "None" THEN Err(S, "BusinessNotVerified")
    ELSE IF c.ver = "Verified" /\ c.amt > c.limit THEN Err(S, "InvalidAmount")
    ELSE IF c.ver = "Pending" THEN Err(S, "KYCAlreadyPending")
    ELSE IF c.ver = "Rejected" THEN Err(S, "BusinessNotVerified")
    ELSE LET S1 == cleanup_expired_bids(S, c.inv)
         IN IF ~validate_bid(S1, S.invoices[c.inv], c.amt, c.ret, c.addr)
            THEN Err(S1, "InvalidAmount")
            ELSE Ok([S1 EXCEPT !.bids = Append(@,
                      [invoice_id |-> c.inv, investor |-> c.addr,
                       bid_amount |-> c.amt, expected_return |-> c.ret,
                       timestamp |-> S.now, status |-> "Placed",
                       expiration_timestamp |-> default_expiration(S.now)])])

\* accept_bid_impl without the check that the invoice is Verified.
accept_bid_impl_any_status(S, c) ==
    LET S1 == cleanup_expired_bids(S, c.inv)
    IN IF c.inv \notin DOMAIN S1.invoices THEN Err(S1, "InvoiceNotFound")
       ELSE IF c.bid \notin DOMAIN S1.bids THEN Err(S1, "StorageKeyNotFound")
       ELSE LET invoice == S1.invoices[c.inv]
                invoice_id == S1.bids[c.bid].invoice_id
                S2 == cleanup_expired_bids(S1, invoice_id)
                bid == S2.bids[c.bid]
            IN IF ~require_auth(c, invoice.business) THEN Err(S2, "AuthFailed")
               ELSE IF bid.status # "Placed" THEN Err(S2, "InvalidStatus")
               ELSE LET e == create_escrow(S2, invoice_id, bid.investor,
                                 invoice.business, bid.bid_amount, invoice.currency, c)
                    IN IF e.res # "Ok" THEN e
                       ELSE Ok([e.st EXCEPT
                                 !.bids[c.bid] = [bid EXCEPT !.status = "Accepted"],
                                 !.invoices[c.inv] =
                                     mark_as_funded(invoice, bid.investor, bid.bid_amount),
                                 !.investments = Append(@,
                                     [invoice_id |-> invoice_id, investor |-> bid.investor,
                                      amount |-> bid.bid_amount, status |-> "Active",
                                      insurance |-> << >>])])

\* accept_bid_impl writing the bid and the invoice before the escrow is created.
accept_bid_impl_eager(S, c) ==
    LET S1 == cleanup_expired_bids(S, c.inv)
    IN IF c.inv \notin DOMAIN S1.invoices THEN Err(S1, "InvoiceNotFound")
       ELSE IF c.bid \notin DOMAIN S1.bids THEN Err(S1, "StorageKeyNotFound")
       ELSE LET invoice == S1.invoices[c.inv]
                invoice_id == S1.bids[c.bid].invoice_id
                S2 == cleanup_expired_bids(S1, invoice_id)
                bid == S2.bids[c.bid]
            IN IF ~require_auth(c, invoice.business) THEN Err(S2, "AuthFailed")
               ELSE IF invoice.status # "Verified" \/ bid.status # "Placed"
                    THEN Err(S2, "InvalidStatus")
               ELSE LET S3 == [S2 EXCEPT
                                 !.bids[c.bid] = [bid EXCEPT !.status = "Accepted"],
                                 !.invoices[c.inv] =
                                     mark_as_funded(invoice, bid.investor, bid.bid_amount)]
                        e == create_escrow(S3, invoice_id, bid.investor,
                                 invoice.business, bid.bid_amount, invoice.currency, c)
                    IN IF e.res # "Ok" THEN e
                       ELSE Ok([e.st EXCEPT
                                 !.investments = Append(@,
                                     [invoice_id |-> invoice_id, investor |-> bid.investor,
                                      amount |-> bid.bid_amount, status |-> "Active",
                                      insurance |-> << >>])])

\* accept_bid_impl without the sweeps of expired bids.
accept_bid_impl_unswept(S, c) ==
    IF c.inv \notin DOMAIN S.invoices THEN Err(S, "InvoiceNotFound")
    ELSE IF c.bid \notin DOMAIN S.bids THEN Err(S, "StorageKeyNotFound")
    ELSE IF ~require_auth(c, S.invoices[c.inv].business) THEN Err(S, "AuthFailed")
    ELSE IF S.invoices[c.inv].status # "Verified" \/ S.bids[c.bid].status # "Placed"
         THEN Err(S, "InvalidStatus")
    ELSE LET invoice == S.invoices[c.inv]
             bid == S.bids[c.bid]
             e == create_escrow(S, bid.invoice_id, bid.investor,
                      invoice.business, bid.bid_amount, invoice.currency, c)
         IN IF e.res # "Ok" THEN e
            ELSE Ok([e.st EXCEPT
                      !.bids[c.bid] = [bid EXCEPT !.status = "Accepted"],
                      !.invoices[c.inv] =
                          mark_as_funded(invoice, bid.investor, bid.bid_amount),
                      !.investments = Append(@,
                          [invoice_id |-> bid.invoice_id, investor |-> bid.investor,
                           amount |-> bid.bid_amount, status |-> "Active",
                           insurance |-> << >>])])

accept_bid_impl(S, c) ==
    LET S1 == cleanup_expired_bids(S, c.inv)
    IN IF c.inv \notin DOMAIN S1.invoices THEN Err(S1, "InvoiceNotFound")
       ELSE IF c.bid \notin DOMAIN S1.bids THEN Err(S1, "StorageKeyNotFound")
       ELSE LET invoice == S1.invoices[c.inv]
                invoice_id == S1.bids[c.bid].invoice_id
                S2 == cleanup_expired_bids(S1, invoice_id)
                bid == S2.bids[c.bid]
            IN IF ~require_auth(c, invoice.business) THEN Err(S2, "AuthFailed")
               ELSE IF invoice.status # "Verified" \/ bid.status # "Placed"
                    THEN Err(S2, "InvalidStatus")
               ELSE LET e == create_escrow(S2, invoice_id, bid.investor,
                                 invoice.business, bid.bid_amount, invoice.currency, c)
                    IN IF e.res # "Ok" THEN e
                       ELSE Ok([e.st EXCEPT
                                 !.bids[c.bid] = [bid EXCEPT !.status = "Accepted"],
                                 !.invoices[c.inv] =
                                     mark_as_funded(invoice, bid.investor, bid.bid_amount),
                                 !.investments = Append(@,
                                     [invoice_id |-> invoice_id, investor |-> bid.investor,
                                      amount |-> bid.bid_amount, status |-> "Active",
                                      insurance |-> << >>])])

\* accept_bid running its body outside the payment guard.
accept_bid_unguarded(S, c) == accept_bid_impl(S, c)

accept_bid(S, c) ==
    with_payment_guard(S, accept_bid_impl(guard_set(S), c))

\* withdraw_bid withdrawing a bid of any status.
withdraw_bid_any_status(S, c) ==
    IF c.bid \notin DOMAIN S.bids THEN Err(S, "StorageKeyNotFound")
    ELSE IF ~require_auth(c, S.bids[c.bid].investor) THEN Err(S, "AuthFailed")
    ELSE Ok([S EXCEPT !.bids[c.bid].status = "Withdrawn"])

withdraw_bid(S, c) ==
    IF c.bid \notin DOMAIN S.bids THEN Err(S, "StorageKeyNotFound")
    ELSE IF ~require_auth(c, S.bids[c.bid].investor) THEN Err(S, "AuthFailed")
    ELSE IF S.bids[c.bid].status # "Placed" THEN Err(S, "OperationNotAllowed")
    ELSE Ok([S EXCEPT !.bids[c.bid].status = "Withdrawn"])

\* settle_invoice leaving the guard flag set when its body returns an error.
settle_invoice_leaky(S, c) ==
    IF S.guard THEN Err(S, "OperationNotAllowed")
    ELSE LET r == do_settle_invoice(guard_set(S), c)
         IN IF r.res = "Ok" THEN [r EXCEPT !.st.guard = FALSE] ELSE r

settle_invoice(S, c) ==
    with_payment_guard(S, do_settle_invoice(guard_set(S), c))

\* process_partial_payment recording every payment as a partial one.
process_partial_payment_never_settles(S, c) ==
    IF c.inv \notin DOMAIN S.invoices THEN Err(S, "InvoiceNotFound")
    ELSE IF c.amt <= 0 THEN Err(S, "InvalidAmount")
    ELSE IF S.invoices[c.inv].status # "Funded" THEN Err(S, "InvalidStatus")
    ELSE LET t == transfer_funds(S, S.invoices[c.inv].currency, 0, c)
         IN IF t.res # "Ok" THEN t
            ELSE Ok(update_invoice(t.st, c.inv,
                        [S.invoices[c.inv] EXCEPT !.total_paid = @ + c.amt]))

process_partial_payment(S, c) == do_process_partial_payment(S, c)

handle_default(S, c) == do_handle_default(S, c.inv)

\* mark_invoice_defaulted dropping the caller's grace period.
mark_invoice_defaulted_fixed_grace(S, c) == do_mark_invoice_defaulted(S, c.inv, -1)

mark_invoice_defaulted(S, c) == do_mark_invoice_defaulted(S, c.inv, c.grace)

cleanup_expired_bids_entry(S, c) == Ok(cleanup_expired_bids(S, c.inv))

\* calculate_profit charging the fee on the whole payment.
calculate_profit_fee_on_payment(S, c) ==
    Ok([S EXCEPT !.payout =
          <<c.pay - (c.pay * S.fee_bps) \div BPS_DENOMINATOR,
            (c.pay * S.fee_bps) \div BPS_DENOMINATOR>>])

\* add_investment_insurance without the check of the investment's status.
add_investment_insurance_any_status(S, c) ==
    IF c.investment \notin DOMAIN S.investments THEN Err(S, "StorageKeyNotFound")
    ELSE IF ~require_auth(c, S.investments[c.investment].investor) THEN Err(S, "AuthFailed")
    ELSE IF calculate_premium(S.investments[c.investment].amount, c.pct) <= 0
         THEN Err(S, "InvalidAmount")
    ELSE LET added == add_insurance(S.investments[c.investment], c.provider, c.pct,
                          calculate_premium(S.investments[c.investment].amount, c.pct))
         IN IF added.res # "Ok" THEN Err(S, added.res)
            ELSE Ok([S EXCEPT !.investments[c.investment] = added.investment])

\* add_investment_insurance adding the entry without asking whether one is
\* active.
add_investment_insurance_unchecked(S, c) ==
    IF c.investment \notin DOMAIN S.investments THEN Err(S, "StorageKeyNotFound")
    ELSE IF ~require_auth(c, S.investments[c.investment].investor) THEN Err(S, "AuthFailed")
    ELSE IF S.investments[c.investment].status # "Active" THEN Err(S, "InvalidStatus")
    ELSE IF calculate_premium(S.investments[c.investment].amount, c.pct) <= 0
         THEN Err(S, "InvalidAmount")
    ELSE Ok([S EXCEPT !.investments[c.investment].insurance = Append(@,
              [provider |-> c.provider, coverage_percentage |-> c.pct,
               coverage_amount |-> coverage_amount(S.investments[c.investment].amount, c.pct),
               premium_amount |-> calculate_premium(S.investments[c.investment].amount, c.pct),
               active |-> TRUE])])

add_investment_insurance(S, c) ==
    IF c.investment \notin DOMAIN S.investments THEN Err(S, "StorageKeyNotFound")
    ELSE IF ~require_auth(c, S.investments[c.investment].investor) THEN Err(S, "AuthFailed")
    ELSE IF S.investments[c.investment].status # "Active" THEN Err(S, "InvalidStatus")
    ELSE IF calculate_premium(S.investments[c.investment].amount, c.pct) <= 0
         THEN Err(S, "InvalidAmount")
    ELSE LET added == add_insurance(S.investments[c.investment], c.provider, c.pct,
                          calculate_premium(S.investments[c.investment].amount, c.pct))
         IN IF added.res # "Ok" THEN Err(S, added.res)
            ELSE Ok([S EXCEPT !.investments[c.investment] = added.investment])

\* Claim processing on a stored investment.
claim_investment_insurance(S, c) ==
    IF c.investment \notin DOMAIN S.investments THEN Err(S, "StorageKeyNotFound")
    ELSE IF ~has_active_insurance(S.investments[c.investment])
         THEN Err(S, "StorageKeyNotFound")
    ELSE Ok([S EXCEPT !.investments[c.investment] =
                 process_insurance_claim(@).investment])

\* remove_invoice_tag leaving the tag index as it is.
remove_invoice_tag_keeping_index(S, c) ==
    IF c.inv \notin DOMAIN S.invoices THEN Err(S, "InvoiceNotFound")
    ELSE IF ~require_auth(c, S.invoices[c.inv].business) THEN Err(S, "AuthFailed")
    ELSE IF remove_tag(S.invoices[c.inv], c.tag).res # "Ok"
         THEN Err(S, remove_tag(S.invoices[c.inv], c.tag).res)
    ELSE Ok(update_invoice(S, c.inv, remove_tag(S.invoices[c.inv], c.tag).invoice))

update_invoice_category(S, c) ==
    IF c.inv \notin DOMAIN S.invoices THEN Err(S, "InvoiceNotFound")
    ELSE IF ~require_auth(c, S.invoices[c.inv].business) THEN Err(S, "AuthFailed")
    ELSE Ok(add_category_index(
                remove_category_index(
                    update_invoice(S, c.inv,
                        [S.invoices[c.inv] EXCEPT !.category = c.category]),
                    S.invoices[c.inv].category, c.inv),
                c.category, c.inv))

add_invoice_tag(S, c) ==
    IF c.inv \notin DOMAIN S.invoices THEN Err(S, "InvoiceNotFound")
    ELSE IF ~require_auth(c, S.invoices[c.inv].business) THEN Err(S, "AuthFailed")
    ELSE IF add_tag(S.invoices[c.inv], c.tag).res # "Ok"
         THEN Err(S, add_tag(S.invoices[c.inv], c.tag).res)
    ELSE Ok(add_tag_index(
                update_invoice(S, c.inv, add_tag(S.invoices[c.inv], c.tag).invoice),
                c.tag, c.inv))

remove_invoice_tag(S, c) ==
    IF c.inv \notin DOMAIN S.invoices THEN Err(S, "InvoiceNotFound")
    ELSE IF ~require_auth(c, S.invoices[c.inv].business) THEN Err(S, "AuthFailed")
    ELSE IF remove_tag(S.invoices[c.inv], c.tag).res # "Ok"
         THEN Err(S, remove_tag(S.invoices[c.inv], c.tag).res)
    ELSE Ok(remove_tag_index(
                update_invoice(S, c.inv, remove_tag(S.invoices[c.inv], c.tag).invoice),
                c.tag, c.inv))

get_ranked_bids(S, c) == Ok([S EXCEPT !.ranked = rank_bids(S, c.inv)])

get_best_bid_entry(S, c) == Ok([S EXCEPT !.ranked = get_best_bid(S, c.inv)])

set_admin(S, c) ==
    IF ~require_auth(c, IF S.verification_admin # "none" THEN S.verification_admin
                        ELSE c.addr)
    THEN Err(S, "AuthFailed")
    ELSE Ok([S EXCEPT !.verification_admin = c.addr])

\* create_dispute without the check that the invoice has no dispute yet.
create_dispute_overwriting(S, c) ==
    IF c.inv \notin DOMAIN S.invoices THEN Err(S, "InvoiceNotFound")
    ELSE do_create_dispute([S EXCEPT !.invoices[c.inv].dispute_status = "None"], c)

\* create_dispute taking every creator for the business of the invoice.
create_dispute_by_anyone(S, c) ==
    IF c.inv \notin DOMAIN S.invoices THEN Err(S, "InvoiceNotFound")
    ELSE do_create_dispute([S EXCEPT !.invoices[c.inv].business = c.addr], c)

\* create_dispute cutting an oversized reason to the limit instead of
\* rejecting it.
create_dispute_truncating(S, c) ==
    do_create_dispute(S, [c EXCEPT !.reason = IF @ > MAX_DISPUTE_REASON_LENGTH
                                             THEN MAX_DISPUTE_REASON_LENGTH ELSE @])

create_dispute(S, c) == do_create_dispute(S, c)

\* put_dispute_under_review accepting a dispute in any status.
put_dispute_under_review_any_status(S, c) ==
    IF require_dispute_admin(S, c) # "Ok" THEN Err(S, require_dispute_admin(S, c))
    ELSE IF c.inv \notin DOMAIN S.invoices THEN Err(S, "InvoiceNotFound")
    ELSE IF S.invoices[c.inv].dispute_status = "None" THEN Err(S, "DisputeNotFound")
    ELSE Ok([S EXCEPT !.invoices[c.inv].dispute_status = "UnderReview"])

\* put_dispute_under_review moving every Disputed invoice, not only the one
\* it is called for.
put_dispute_under_review_all(S, c) ==
    IF do_put_dispute_under_review(S, c).res # "Ok" THEN do_put_dispute_under_review(S, c)
    ELSE Ok([S EXCEPT !.invoices = [i \in DOMAIN S.invoices |->
                IF S.invoices[i].dispute_status = "Disputed"
                THEN [S.invoices[i] EXCEPT !.dispute_status = "UnderReview"]
                ELSE S.invoices[i]]])

put_dispute_under_review(S, c) == do_put_dispute_under_review(S, c)

\* resolve_dispute without the check that the dispute is under review.
resolve_dispute_from_any(S, c) ==
    IF require_dispute_admin(S, c) # "Ok" THEN Err(S, require_dispute_admin(S, c))
    ELSE IF c.inv \notin DOMAIN S.invoices THEN Err(S, "InvoiceNotFound")
    ELSE IF c.resolution < 1 \/ c.resolution > MAX_DISPUTE_RESOLUTION_LENGTH
         THEN Err(S, "InvalidDisputeReason")
    ELSE Ok([S EXCEPT !.invoices[c.inv].dispute_status = "Resolved",
                      !.invoices[c.inv].dispute.resolution = c.resolution,
                      !.invoices[c.inv].dispute.resolved_by = c.addr,
                      !.invoices[c.inv].dispute.resolved_at = S.now])

resolve_dispute(S, c) == do_resolve_dispute(S, c)

calculate_profit(S, c) ==
    Ok([S EXCEPT !.payout = do_calculate_profit(S, c.amt, c.pay)])

set_platform_fee(S, c) ==
    IF S.admin = "none" THEN Err(S, "NotAdmin")
    ELSE PlatformFee_set_config(S, c, S.admin)

\* The sweep reads the Funded list once and then checks each listed invoice in
\* turn on the store the previous checks left; an error of a check ends it.
check_overdue_invoices_grace(S, grace_period) ==
    LET funded_invoices == S.idx["Funded"]
        Sweep[k \in 0..Len(funded_invoices)] ==
            IF k = 0 THEN Ok(S)
            ELSE IF Sweep[k - 1].res # "Ok" THEN Sweep[k - 1]
            ELSE IF funded_invoices[k] \notin DOMAIN S.invoices THEN Sweep[k - 1]
            ELSE check_and_handle_expiration(Sweep[k - 1].st, funded_invoices[k],
                                             grace_period)
    IN Sweep[Len(funded_invoices)]

check_overdue_invoices(S, c) == check_overdue_invoices_grace(S, DEFAULT_GRACE_PERIOD)

check_overdue_invoices_grace_entry(S, c) == check_overdue_invoices_grace(S, c.grace)

check_invoice_expiration(S, c) ==
    IF c.inv \notin DOMAIN S.invoices THEN Err(S, "InvoiceNotFound")
    ELSE LET grace == IF c.grace < 0 THEN DEFAULT_GRACE_PERIOD ELSE c.grace
         IN check_and_handle_expiration(S, c.inv, grace)

Dispatch(S, c) ==
    CASE c.op = "initialize_admin" -> initialize_admin(S, c)
      [] c.op = "store_invoice" -> store_invoice(S, c)
      [] c.op = "upload_invoice" -> upload_invoice(S, c)
      [] c.op = "verify_invoice" -> verify_invoice(S, c)
      [] c.op = "cancel_invoice" -> cancel_invoice(S, c)
      [] c.op = "update_invoice_status" -> update_invoice_status(S, c)
      [] c.op = "place_bid" -> place_bid(S, c)
      [] c.op = "withdraw_bid" -> withdraw_bid(S, c)
      [] c.op = "cleanup_expired_bids" -> cleanup_expired_bids_entry(S, c)
      [] c.op = "accept_bid" -> accept_bid(S, c)
      [] c.op = "accept_bid_and_fund" -> accept_bid_and_fund(S, c)
      [] c.op = "release_escrow_funds" -> release_escrow_funds(S, c)
      [] c.op = "refund_escrow_funds" -> refund_escrow_funds(S, c)
      [] c.op = "settle_invoice" -> settle_invoice(S, c)
      [] c.op = "process_partial_payment" -> process_partial_payment(S, c)
      [] c.op = "handle_default" -> handle_default(S, c)
      [] c.op = "mark_invoice_defaulted" -> mark_invoice_defaulted(S, c)
      [] c.op = "check_invoice_expiration" -> check_invoice_expiration(S, c)
      [] c.op = "calculate_profit" -> calculate_profit(S, c)
      [] c.op = "set_admin" -> set_admin(S, c)
      [] c.op = "transfer_admin" -> transfer_admin(S, c)
      [] c.op = "get_ranked_bids" -> get_ranked_bids(S, c)
      [] c.op = "update_invoice_category" -> update_invoice_category(S, c)
      [] c.op = "add_invoice_tag" -> add_invoice_tag(S, c)
      [] c.op = "remove_invoice_tag" -> remove_invoice_tag(S, c)
      [] c.op = "get_best_bid" -> get_best_bid_entry(S, c)
      [] c.op = "add_investment_insurance" -> add_investment_insurance(S, c)
      [] c.op = "process_insurance_claim" -> claim_investment_insurance(S, c)
      [] c.op = "create_dispute" -> create_dispute(S, c)
      [] c.op = "put_dispute_under_review" -> put_dispute_under_review(S, c)
      [] c.op = "resolve_dispute" -> resolve_dispute(S, c)
      [] c.op = "set_platform_fee" -> set_platform_fee(S, c)
      [] c.op = "check_overdue_invoices" -> check_overdue_invoices(S, c)
      [] c.op = "check_overdue_invoices_grace" ->
             check_overdue_invoices_grace_entry(S, c)

\* One invocation with the callback of the token contract, if the call has
\* one: the nested frame runs on the store the transfer is reached with, and
\* the invocation then runs with the outcome of that frame.
NestedCall(n) ==
    [Call(n.op, n.signer, n.inv, n.bid, n.amt) EXCEPT !.ok = n.ok, !.depth = 1]

\* The store the nested frame starts from: the one the transfer was reached
\* with, the guard flag as it is held at that point.
AtTransfer(reached) ==
    [reached.st EXCEPT !.guard = (reached.st.nested = "held"),
                       !.nested = "none", !.moved = FALSE]

WithNested(S, c, n) == Dispatch(S, [c EXCEPT !.nres = n.res, !.nst = n.st])

InvokeFrom(S, c, reached) ==
    IF reached.res # "AtTransfer" THEN Dispatch(S, c)
    ELSE WithNested(S, c, Dispatch(AtTransfer(reached), NestedCall(c.nest)))

Invoke(S, c) ==
    IF c.nest.op = "none" THEN Dispatch(S, c)
    ELSE InvokeFrom(S, c, Dispatch(S, [c EXCEPT !.probe = TRUE]))

\* ---------------------------------------------------------------- the host
\* One top-level invocation: the writes of a failed invocation are discarded.
Commit(c, r) ==
    /\ r.res = "Ok"
    /\ invoices' = r.st.invoices
    /\ idx' = r.st.idx
    /\ bids' = r.st.bids
    /\ escrows' = r.st.escrows
    /\ investments' = r.st.investments
    /\ guard' = r.st.guard
    /\ admin' = r.st.admin
    /\ custody' = r.st.custody
    /\ verification_admin' = r.st.verification_admin
    /\ fee_bps' = r.st.fee_bps
    /\ category_idx' = r.st.category_idx
    /\ tag_idx' = r.st.tag_idx
    /\ now' = now
    /\ updates' = IF c.op = "update_invoice_status" THEN updates + 1 ELSE updates

HostInvoke(c) == Commit(c, Invoke(St, c))

\* The identifiers calls are made with: every stored one and an unknown one.
InvIds == 1..(Len(invoices) + 1)
BidIds == 1..(Len(bids) + 1)

GuardedOps == {"accept_bid", "accept_bid_and_fund", "release_escrow_funds",
               "refund_escrow_funds", "settle_invoice"}

\* What a token contract may call back during a transfer.
Nests ==
    {[op |-> o, signer |-> "biz", inv |-> i, bid |-> b, amt |-> 1000, ok |-> TRUE] :
        o \in {"accept_bid", "accept_bid_and_fund"}, i \in InvIds, b \in BidIds}
    \cup
    {[op |-> o, signer |-> "biz", inv |-> i, bid |-> 0, amt |-> 1000, ok |-> TRUE] :
        o \in {"release_escrow_funds", "refund_escrow_funds", "settle_invoice"},
        i \in InvIds}

\* The outcomes of the transfer primitive: it succeeds, it fails, or the token
\* contract calls back and then completes the transfer.
Xfers ==
    {[ok |-> TRUE, nest |-> NoNest], [ok |-> FALSE, nest |-> NoNest]} \cup
    {[ok |-> TRUE, nest |-> n] : n \in Nests}

Signers == {Admin} \cup Businesses \cup Investors

Init ==
    /\ invoices = << >>
    /\ idx = [s \in InvoiceStatus |-> << >>]
    /\ bids = << >>
    /\ escrows = << >>
    /\ investments = << >>
    /\ guard = FALSE
    /\ admin = "none"
    /\ custody = [c \in Currencies |-> 0]
    /\ now = 0
    /\ updates = 0
    /\ verification_admin = "none"
    /\ fee_bps = DEFAULT_PLATFORM_FEE_BPS
    /\ category_idx = [g \in InvoiceCategory |-> << >>]
    /\ tag_idx = [t \in Tags |-> << >>]

\* ------------------------------------------------------ the calls made
Anyone == "inv1"

InitializeAdminCalls ==
    {[Call("initialize_admin", s, 0, 0, 0) EXCEPT !.addr = Admin] : s \in {Admin, "biz"}}

\* amount, description length, currency allowed
InvoiceInputs == {<<1000, 1, TRUE>>, <<0, 1, TRUE>>, <<1000, 0, TRUE>>, <<1000, 1, FALSE>>}

StoreInvoiceCalls ==
    {[Call("store_invoice", b, 0, 0, v[1]) EXCEPT
        !.cur = cu, !.due = du, !.desc = v[2], !.allowed = v[3]] :
     b \in Businesses, cu \in Currencies, du \in DueDates, v \in InvoiceInputs}

UploadInvoiceCalls ==
    {[Call("upload_invoice", s, 0, 0, v[1]) EXCEPT
        !.addr = b, !.cur = cu, !.due = du, !.bizver = bv,
        !.desc = v[2], !.allowed = v[3]] :
     s \in {"biz", "inv1"}, b \in Businesses, cu \in Currencies, du \in DueDates,
     bv \in BOOLEAN, v \in InvoiceInputs}

VerifyInvoiceCalls ==
    {Call("verify_invoice", s, i, 0, 0) : s \in {Admin, "biz"}, i \in InvIds}

CancelInvoiceCalls ==
    {Call("cancel_invoice", s, i, 0, 0) : s \in {Admin, "biz"}, i \in InvIds}

UpdateInvoiceStatusCalls ==
    {[Call("update_invoice_status", Anyone, i, 0, 0) EXCEPT !.status = ns] :
     i \in InvIds, ns \in InvoiceStatus}

\* the investor's verification record and the currency gate
BidGates == {<<"Verified", 1000, TRUE>>, <<"Verified", 500, TRUE>>,
             <<"Pending", 1000, TRUE>>, <<"Rejected", 1000, TRUE>>,
             <<"None", 0, TRUE>>, <<"Verified", 1000, FALSE>>}

PlaceBidCalls ==
    {[Call("place_bid", s, i, 0, a) EXCEPT
        !.addr = iv, !.ret = r, !.ver = g[1], !.limit = g[2], !.allowed = g[3]] :
     s \in {"biz"} \cup Investors, iv \in Investors, i \in InvIds, a \in BidAmounts,
     r \in Returns, g \in BidGates}

WithdrawBidCalls ==
    {Call("withdraw_bid", s, 0, b, 0) : s \in {"biz"} \cup Investors, b \in BidIds}

CleanupExpiredBidsCalls ==
    {Call("cleanup_expired_bids", Anyone, i, 0, 0) : i \in InvIds}

\* A call that never reaches the transfer is decided whatever the transfer
\* would do: only the calls that pass with a plain transfer are tried with
\* the other outcomes of the transfer.
WithXfers(B) ==
    B \cup {[c EXCEPT !.ok = x.ok, !.nest = x.nest] :
              c \in {b \in B : Dispatch(St, b).res = "Ok"}, x \in Xfers}

AcceptBidCalls ==
    WithXfers({Call("accept_bid", s, i, b, 0) :
               s \in {"biz", "inv1"}, i \in InvIds, b \in BidIds})

AcceptBidAndFundCalls ==
    WithXfers({Call("accept_bid_and_fund", s, i, b, 0) :
               s \in {"biz", "inv1"}, i \in InvIds, b \in BidIds})

ReleaseEscrowFundsCalls ==
    WithXfers({Call("release_escrow_funds", Anyone, i, 0, 0) : i \in InvIds})

RefundEscrowFundsCalls ==
    WithXfers({Call("refund_escrow_funds", s, i, 0, 0) : s \in Signers, i \in InvIds})

SettleInvoiceCalls ==
    WithXfers({Call("settle_invoice", Anyone, i, 0, a) :
               i \in InvIds, a \in Payments \cup {0}})

ProcessPartialPaymentCalls ==
    WithXfers({Call("process_partial_payment", Anyone, i, 0, a) :
               i \in InvIds, a \in Payments \cup {0}})

HandleDefaultCalls ==
    {Call("handle_default", Anyone, i, 0, 0) : i \in InvIds}

MarkInvoiceDefaultedCalls ==
    {[Call("mark_invoice_defaulted", Anyone, i, 0, 0) EXCEPT !.grace = g] :
     i \in InvIds, g \in Graces}

CheckInvoiceExpirationCalls ==
    {[Call("check_invoice_expiration", Anyone, i, 0, 0) EXCEPT !.grace = g] :
     i \in InvIds, g \in Graces}

CheckOverdueInvoicesCalls == {Call("check_overdue_invoices", Anyone, 0, 0, 0)}

CheckOverdueInvoicesGraceCalls ==
    {[Call("check_overdue_invoices_grace", Anyone, 0, 0, 0) EXCEPT !.grace = g] :
     g \in Graces \ {-1}}

CalculateProfitCalls ==
    {[Call("calculate_profit", Anyone, 0, 0, p) EXCEPT !.pay = a] :
     p \in Principals, a \in Payments \cup {800, 1099}}

SetPlatformFeeCalls ==
    {Call("set_platform_fee", s, 0, 0, f) :
     s \in {Admin, "biz"}, f \in FeeBps \cup {-1, 10001}}

SetAdminCalls ==
    {[Call("set_admin", s, 0, 0, 0) EXCEPT !.addr = Admin] : s \in {Admin, "biz"}}

\* lengths of reason and evidence
DisputeTexts == {<<1, 1>>, <<500, 1000>>, <<0, 1>>, <<501, 1>>, <<1, 0>>, <<1, 1001>>,
                 <<501, 1001>>}

CreateDisputeCalls ==
    {[Call("create_dispute", s, i, 0, 0) EXCEPT
        !.addr = a, !.reason = t[1], !.evidence = t[2]] :
     s \in {"biz"}, a \in {"biz"}, i \in InvIds, t \in DisputeTexts}
    \cup
    {[Call("create_dispute", a, i, 0, 0) EXCEPT
        !.addr = a, !.reason = t[1], !.evidence = t[2]] :
     a \in Signers, i \in InvIds, t \in DisputeTexts}
    \cup
    {[Call("create_dispute", "inv1", i, 0, 0) EXCEPT !.addr = "biz"] : i \in InvIds}

PutDisputeUnderReviewCalls ==
    {[Call("put_dispute_under_review", s, i, 0, 0) EXCEPT !.addr = a] :
     s \in {Admin, "biz"}, a \in {Admin, "biz"}, i \in InvIds}

Resolutions == {0, 1, 500, 501}

ResolveDisputeCalls ==
    {[Call("resolve_dispute", s, i, 0, 0) EXCEPT !.addr = a, !.resolution = r] :
     s \in {Admin, "biz"}, a \in {Admin, "biz"}, i \in InvIds, r \in Resolutions}

InvestmentIds == 1..(Len(investments) + 1)

AddInvestmentInsuranceCalls ==
    {[Call("add_investment_insurance", s, 0, 0, 0) EXCEPT
        !.investment = k, !.provider = p, !.pct = q] :
     s \in {"biz"} \cup Investors, k \in InvestmentIds, p \in Providers, q \in Coverages}

\* initialize_admin, transfer_admin and set_admin naming any address.
AdminCalls ==
    {[Call(op, s, 0, 0, 0) EXCEPT !.addr = a] :
     op \in {"initialize_admin", "transfer_admin", "set_admin"},
     s \in Signers, a \in Signers}

TaggedStoreInvoiceCalls ==
    {[Call("store_invoice", b, 0, 0, 1000) EXCEPT
        !.due = du, !.category = g, !.tags = tl] :
     b \in Businesses, du \in DueDates, g \in InvoiceCategory, tl \in TagLists}

InvoiceTagCalls ==
    {[Call(op, s, i, 0, 0) EXCEPT !.tag = t] :
     op \in {"add_invoice_tag", "remove_invoice_tag"}, s \in {"biz", "inv1"},
     i \in InvIds, t \in Tags}

UpdateInvoiceCategoryCalls ==
    {[Call("update_invoice_category", s, i, 0, 0) EXCEPT !.category = g] :
     s \in {"biz", "inv1"}, i \in InvIds, g \in InvoiceCategory}

RankedPlaceBidCalls ==
    {[Call("place_bid", iv, i, 0, t[1]) EXCEPT
        !.addr = iv, !.ret = t[2], !.ver = "Verified", !.limit = 2000] :
     iv \in Investors, i \in InvIds, t \in RankedTerms}

GetRankedBidsCalls ==
    {Call(op, Anyone, i, 0, 0) : op \in {"get_ranked_bids", "get_best_bid"}, i \in InvIds}

StoredInsuranceCalls ==
    {[Call("add_investment_insurance", s, 0, 0, 0) EXCEPT
        !.investment = k, !.provider = p, !.pct = q] :
     s \in {"biz"} \cup Investors, k \in InvestmentIds, p \in Providers,
     q \in StoredCoverages}

ProcessInsuranceClaimCalls ==
    {[Call("process_insurance_claim", Anyone, 0, 0, 0) EXCEPT !.investment = k] :
     k \in InvestmentIds}

\* ---------------------------------------------------------------- actions
InitializeAdmin == \E c \in InitializeAdminCalls : HostInvoke(c)

StoreInvoice ==
    /\ Len(invoices) < MaxInvoices
    /\ \E c \in StoreInvoiceCalls : HostInvoke(c)

UploadInvoice ==
    /\ Len(invoices) < MaxInvoices
    /\ \E c \in UploadInvoiceCalls : HostInvoke(c)

VerifyInvoice == \E c \in VerifyInvoiceCalls : HostInvoke(c)

CancelInvoice == \E c \in CancelInvoiceCalls : HostInvoke(c)

UpdateInvoiceStatus ==
    /\ updates < MaxStatusUpdates
    /\ \E c \in UpdateInvoiceStatusCalls : HostInvoke(c)

PlaceBid ==
    /\ Len(bids) < MaxBids
    /\ \E c \in PlaceBidCalls : HostInvoke(c)

WithdrawBid == \E c \in WithdrawBidCalls : HostInvoke(c)

CleanupExpiredBids == \E c \in CleanupExpiredBidsCalls : HostInvoke(c)

AcceptBid == \E c \in AcceptBidCalls : HostInvoke(c)

AcceptBidAndFund == \E c \in AcceptBidAndFundCalls : HostInvoke(c)

ReleaseEscrowFunds == \E c \in ReleaseEscrowFundsCalls : HostInvoke(c)

RefundEscrowFunds == \E c \in RefundEscrowFundsCalls : HostInvoke(c)

SettleInvoice == \E c \in SettleInvoiceCalls : HostInvoke(c)

ProcessPartialPayment == \E c \in ProcessPartialPaymentCalls : HostInvoke(c)

HandleDefault == \E c \in HandleDefaultCalls : HostInvoke(c)

MarkInvoiceDefaulted == \E c \in MarkInvoiceDefaultedCalls : HostInvoke(c)

CheckInvoiceExpiration == \E c \in CheckInvoiceExpirationCalls : HostInvoke(c)

CheckOverdueInvoices == \E c \in CheckOverdueInvoicesCalls : HostInvoke(c)

CheckOverdueInvoicesGrace == \E c \in CheckOverdueInvoicesGraceCalls : HostInvoke(c)

\* The ledger timestamp advances to the next instants at which a stored
\* deadline is reached.
Horizon == 2592000 + DEFAULT_GRACE_PERIOD

Instants ==
    {bids[b].expiration_timestamp + 1 :
        b \in {k \in DOMAIN bids : bids[k].status = "Placed"}} \cup
    UNION {{invoices[i].due_date - 1, invoices[i].due_date,
            invoices[i].due_date + DEFAULT_GRACE_PERIOD - 1,
            invoices[i].due_date + DEFAULT_GRACE_PERIOD} :
        i \in {k \in DOMAIN invoices : invoices[k].status = "Funded"}}

Tick ==
    /\ \E t \in Instants : t > now /\ t <= Horizon /\ now' = t
    /\ UNCHANGED <<invoices, idx, bids, escrows, investments, guard, admin, custody,
                   updates, verification_admin, fee_bps, category_idx, tag_idx>>

Next ==
    \/ InitializeAdmin
    \/ StoreInvoice
    \/ UploadInvoice
    \/ VerifyInvoice
    \/ CancelInvoice
    \/ UpdateInvoiceStatus
    \/ PlaceBid
    \/ WithdrawBid
    \/ CleanupExpiredBids
    \/ AcceptBid
    \/ AcceptBidAndFund
    \/ ReleaseEscrowFunds
    \/ RefundEscrowFunds
    \/ SettleInvoice
    \/ ProcessPartialPayment
    \/ HandleDefault
    \/ MarkInvoiceDefaulted
    \/ CheckInvoiceExpiration
    \/ CheckOverdueInvoices
    \/ CheckOverdueInvoicesGrace
    \/ Tick

Spec == Init /\ [][Next]_vars

\* Two invoices side by side, for the calls that name an invoice and a bid
\* placed on another one.
CrossStoreInvoice ==
    /\ Len(invoices) < MaxInvoices + 1
    /\ \E c \in StoreInvoiceCalls : HostInvoke(c)

CrossPlaceBid ==
    /\ Len(bids) < MaxBids - 1
    /\ \E c \in PlaceBidCalls : HostInvoke(c)

NextCross ==
    \/ InitializeAdmin
    \/ CrossStoreInvoice
    \/ VerifyInvoice
    \/ CrossPlaceBid
    \/ AcceptBid
    \/ AcceptBidAndFund

SpecCross == Init /\ [][NextCross]_vars

\* The settlement of one invoice under every configured platform fee.
CalculateProfit == \E c \in CalculateProfitCalls : HostInvoke(c)

SetPlatformFee == \E c \in SetPlatformFeeCalls : HostInvoke(c)

NextProfit ==
    \/ InitializeAdmin
    \/ StoreInvoice
    \/ VerifyInvoice
    \/ PlaceBid
    \/ AcceptBid
    \/ SettleInvoice
    \/ ProcessPartialPayment
    \/ SetPlatformFee
    \/ CalculateProfit

SpecProfit == Init /\ [][NextProfit]_vars

\* The disputes of two invoices, before and after funding.
SetAdmin == \E c \in SetAdminCalls : HostInvoke(c)

CreateDispute == \E c \in CreateDisputeCalls : HostInvoke(c)

PutDisputeUnderReview == \E c \in PutDisputeUnderReviewCalls : HostInvoke(c)

ResolveDispute == \E c \in ResolveDisputeCalls : HostInvoke(c)

NextDispute ==
    \/ InitializeAdmin
    \/ SetAdmin
    \/ CrossStoreInvoice
    \/ VerifyInvoice
    \/ CrossPlaceBid
    \/ AcceptBid
    \/ CreateDispute
    \/ PutDisputeUnderReview
    \/ ResolveDispute

SpecDispute == Init /\ [][NextDispute]_vars

\* The insurance of the investments of two funded invoices.
AddInvestmentInsurance ==
    \E c \in AddInvestmentInsuranceCalls :
        /\ c.investment \in DOMAIN investments
             => Len(investments[c.investment].insurance) < MaxInsurance
        /\ HostInvoke(c)

ProcessInsuranceClaim == \E c \in ProcessInsuranceClaimCalls : HostInvoke(c)

NextInsurance ==
    \/ InitializeAdmin
    \/ CrossStoreInvoice
    \/ VerifyInvoice
    \/ PlaceBid
    \/ AcceptBid
    \/ AddInvestmentInsurance
    \/ ProcessInsuranceClaim

SpecInsurance == Init /\ [][NextInsurance]_vars

\* The administrator as the two storage modules record it.
InitializeAnyAdmin ==
    \E c \in AdminCalls : c.op = "initialize_admin" /\ HostInvoke(c)

TransferAdmin == \E c \in AdminCalls : c.op = "transfer_admin" /\ HostInvoke(c)

SetAnyAdmin == \E c \in AdminCalls : c.op = "set_admin" /\ HostInvoke(c)

NextAdmin ==
    \/ InitializeAnyAdmin
    \/ TransferAdmin
    \/ SetAnyAdmin
    \/ StoreInvoice
    \/ VerifyInvoice
    \/ SetPlatformFee

SpecAdmin == Init /\ [][NextAdmin]_vars

\* The categories and tags of two invoices and their index lists.
TaggedStoreInvoice ==
    /\ Len(invoices) < MaxInvoices + 1
    /\ \E c \in TaggedStoreInvoiceCalls : HostInvoke(c)

AddInvoiceTag ==
    \E c \in InvoiceTagCalls : c.op = "add_invoice_tag" /\ HostInvoke(c)

RemoveInvoiceTag ==
    \E c \in InvoiceTagCalls : c.op = "remove_invoice_tag" /\ HostInvoke(c)

UpdateInvoiceCategory == \E c \in UpdateInvoiceCategoryCalls : HostInvoke(c)

NextTags ==
    \/ TaggedStoreInvoice
    \/ AddInvoiceTag
    \/ RemoveInvoiceTag
    \/ UpdateInvoiceCategory

SpecTags == Init /\ [][NextTags]_vars

\* The ranking of the bids of one invoice, placed at two instants with
\* different terms and partly withdrawn.
RankedPlaceBid ==
    /\ Len(bids) < MaxRankedBids
    /\ \E c \in RankedPlaceBidCalls : HostInvoke(c)

GetRankedBids == \E c \in GetRankedBidsCalls : HostInvoke(c)

RankTick ==
    /\ now < MaxRankTime
    /\ now' = now + 1
    /\ UNCHANGED <<invoices, idx, bids, escrows, investments, guard, admin, custody,
                   updates, verification_admin, fee_bps, category_idx, tag_idx>>

NextRanking ==
    \/ InitializeAdmin
    \/ StoreInvoice
    \/ VerifyInvoice
    \/ RankedPlaceBid
    \/ WithdrawBid
    \/ GetRankedBids
    \/ RankTick

SpecRanking == Init /\ [][NextRanking]_vars

\* The insurance of one investment put into storage directly, with any
\* amount and status (store_investment of the insurance tests).
InitStored ==
    /\ invoices = << >>
    /\ idx = [s \in InvoiceStatus |-> << >>]
    /\ bids = << >>
    /\ escrows = << >>
    /\ \E a \in StoredAmounts, s \in InvestmentStatus :
          investments = <<[invoice_id |-> 1, investor |-> Anyone, amount |-> a,
                           status |-> s, insurance |-> << >>]>>
    /\ guard = FALSE
    /\ admin = "none"
    /\ custody = [c \in Currencies |-> 0]
    /\ now = 0
    /\ updates = 0
    /\ verification_admin = "none"
    /\ fee_bps = DEFAULT_PLATFORM_FEE_BPS
    /\ category_idx = [g \in InvoiceCategory |-> << >>]
    /\ tag_idx = [t \in Tags |-> << >>]

StoredAddInsurance ==
    \E c \in StoredInsuranceCalls :
        /\ c.investment \in DOMAIN investments
             => Len(investments[c.investment].insurance) < MaxInsurance
        /\ HostInvoke(c)

NextStored ==
    \/ StoredAddInsurance
    \/ ProcessInsuranceClaim

SpecStored == InitStored /\ [][NextStored]_vars

\* ------------------------------------------------------------ properties
Res(c) == Invoke(St, c)

\* What the host leaves in storage after the invocation returned r.
Committed(r) == IF r.res = "Ok" THEN r.st ELSE St

GuardedCalls ==
    AcceptBidCalls \cup AcceptBidAndFundCalls \cup ReleaseEscrowFundsCalls \cup
    RefundEscrowFundsCalls \cup SettleInvoiceCalls

TypeOK ==
    /\ guard \in BOOLEAN
    /\ \A i \in DOMAIN invoices : invoices[i].status \in InvoiceStatus
    /\ \A b \in DOMAIN bids : bids[b].status \in BidStatus
    /\ \A k \in DOMAIN escrows : escrows[k].status \in EscrowStatus
    /\ \A k \in DOMAIN investments : investments[k].status \in InvestmentStatus

\* C1: every stored invoice id is a member of exactly one of the six status
\* index lists: never of none, never of two, never twice of the same list.
C1_ExactlyOneStatusIndex ==
    \A i \in DOMAIN invoices :
        Cardinality(UNION {{<<s, k>> : k \in {j \in DOMAIN idx[s] : idx[s][j] = i}} :
                           s \in InvoiceStatus}) = 1

\* C2: in every reachable state each invoice has at most one bid with status
\* Accepted referencing it, and accept_bid / accept_bid_and_fund on an invoice
\* that is already Funded fails and leaves every bid as it was.
C2_AtMostOneAcceptedBid ==
    /\ \A i \in DOMAIN invoices :
          Cardinality({b \in DOMAIN bids :
              bids[b].invoice_id = i /\ bids[b].status = "Accepted"}) <= 1
    /\ \A c \in AcceptBidCalls \cup AcceptBidAndFundCalls :
          (c.inv \in DOMAIN invoices /\ invoices[c.inv].status = "Funded")
              => /\ Res(c).res # "Ok"
                 /\ Committed(Res(c)).bids = bids

\* A Funded invoice with its Accepted bid and a second bid still Placed on it.
C2_Witness ==
    \E i \in DOMAIN invoices : \E b1, b2 \in DOMAIN bids :
        /\ invoices[i].status = "Funded"
        /\ bids[b1].invoice_id = i /\ bids[b1].status = "Accepted"
        /\ bids[b2].invoice_id = i /\ bids[b2].status = "Placed"

\* C3: for every escrow record, the amount is the bid_amount of the Accepted
\* bid on the invoice the escrow is keyed by, and the currency is the currency
\* of that invoice.
C3_EscrowMatchesBidAndInvoice ==
    \A k \in DOMAIN escrows :
        /\ k \in DOMAIN invoices
        /\ escrows[k].currency = invoices[k].currency
        /\ \E b \in DOMAIN bids :
              /\ bids[b].invoice_id = k
              /\ bids[b].status = "Accepted"
              /\ bids[b].bid_amount = escrows[k].amount

\* C4: an escrow record, once created, is never replaced and its status only
\* moves Funded -> Released or Funded -> Refunded; refund_escrow_funds on a
\* Released escrow fails and release_escrow_funds on a Refunded escrow fails.
C4_EscrowOneWay ==
    /\ [](/\ \A c \in RefundEscrowFundsCalls :
                (c.inv \in DOMAIN escrows /\ escrows[c.inv].status = "Released")
                    => Res(c).res # "Ok"
          /\ \A c \in ReleaseEscrowFundsCalls :
                (c.inv \in DOMAIN escrows /\ escrows[c.inv].status = "Refunded")
                    => Res(c).res # "Ok")
    /\ [][\A k \in DOMAIN escrows :
            /\ k \in DOMAIN escrows'
            /\ [escrows'[k] EXCEPT !.status = escrows[k].status] = escrows[k]
            /\ \/ escrows'[k].status = escrows[k].status
               \/ /\ escrows[k].status = "Funded"
                  /\ escrows'[k].status \in {"Released", "Refunded"}]_vars

\* A Released escrow under an invoice that is still Funded, with an admin to
\* ask for the refund.
C4_Witness ==
    \E k \in DOMAIN escrows :
        /\ escrows[k].status = "Released"
        /\ invoices[k].status = "Funded"
        /\ admin # "none"

\* C5: the status of an invoice changes only along Pending -> Verified,
\* Verified -> Funded, Funded -> Paid, Funded -> Defaulted, Pending -> Cancelled
\* and Verified -> Cancelled, whatever public operation is called.
C5_AllowedTransitionsOnly ==
    [][\A i \in DOMAIN invoices :
          \/ invoices'[i].status = invoices[i].status
          \/ <<invoices[i].status, invoices'[i].status>> \in
                {<<"Pending", "Verified">>, <<"Verified", "Funded">>,
                 <<"Funded", "Paid">>, <<"Funded", "Defaulted">>,
                 <<"Pending", "Cancelled">>, <<"Verified", "Cancelled">>}]_vars

\* C6: a successful accept_bid on a Verified invoice with a Placed bid leaves
\* the bid Accepted, the invoice Funded, an escrow for that invoice whose amount
\* is the bid amount, and a new Investment for that invoice with status Active,
\* the bid's amount and the bid's investor.
C6_AcceptBidUnit ==
    \A c \in AcceptBidCalls :
        (/\ c.inv \in DOMAIN invoices /\ c.bid \in DOMAIN bids
         /\ invoices[c.inv].status = "Verified" /\ bids[c.bid].status = "Placed"
         /\ Res(c).res = "Ok")
        => LET T == Res(c).st
           IN /\ T.bids[c.bid].status = "Accepted"
              /\ T.invoices[c.inv].status = "Funded"
              /\ c.inv \in DOMAIN T.escrows
              /\ T.escrows[c.inv].amount = bids[c.bid].bid_amount
              /\ \E k \in DOMAIN T.investments :
                    /\ k \notin DOMAIN investments
                    /\ T.investments[k].invoice_id = c.inv
                    /\ T.investments[k].status = "Active"
                    /\ T.investments[k].amount = bids[c.bid].bid_amount
                    /\ T.investments[k].investor = bids[c.bid].investor

\* C7: when the transfer into escrow fails inside accept_bid, the call fails
\* and nothing of the acceptance is written, neither at the point of failure
\* nor in what the host commits: the bid is Placed, the invoice Verified, and
\* no escrow and no investment record has been added.
C7_FailedTransferCommitsNothing ==
    \A c \in AcceptBidCalls :
        ~c.ok =>
            LET r == Res(c)
            IN /\ r.res # "Ok"
               /\ r.st.bids[c.bid].status = "Placed"
               /\ r.st.invoices[c.inv].status = "Verified"
               /\ r.st.escrows = escrows
               /\ r.st.investments = investments
               /\ Committed(r).bids = bids
               /\ Committed(r).invoices = invoices
               /\ Committed(r).escrows = escrows
               /\ Committed(r).investments = investments
               /\ Committed(r).custody = custody

\* An accept_bid that passes every check and whose transfer then fails.
C7_Witness ==
    \E c \in AcceptBidCalls :
        /\ ~c.ok
        /\ invoices[c.inv].status = "Verified"
        /\ bids[c.bid].status = "Placed"
        /\ Res(c).res = "InsufficientFunds"

\* C8: while the body of accept_bid, accept_bid_and_fund, release_escrow_funds,
\* refund_escrow_funds or settle_invoice is executing, a nested entry into any
\* of them fails with OperationNotAllowed and moves no funds.
C8_NestedEntryRejected ==
    \A c \in GuardedCalls :
        c.nest.op # "none" =>
            /\ Res(c).st.nested = "OperationNotAllowed"
            /\ ~Res(c).st.moved

\* A guarded call that completes although the token contract called back into
\* a guarded entry point during its transfer.
C8_Witness ==
    \E c \in GuardedCalls :
        /\ c.nest.op \in GuardedOps
        /\ Res(c).res = "Ok"
        /\ Res(c).st.nested = "OperationNotAllowed"

\* C9: the guard flag is never set between top-level calls; every guarded call
\* returns with the flag cleared, also when it returns an error; and after a
\* failed guarded call the next guarded call is not rejected by the guard.
C9_GuardReleased ==
    /\ guard = FALSE
    /\ \A c \in GuardedCalls :
          /\ Res(c).st.guard = FALSE
          /\ Committed(Res(c)).guard = FALSE
          /\ Res(c).res # "OperationNotAllowed"

\* A guarded call that fails in the middle of its body, after the flag was set.
C9_Witness ==
    /\ ~guard
    /\ \E c \in SettleInvoiceCalls : Res(c).res = "InsufficientFunds"

\* C10: mark_invoice_defaulted on a Funded invoice succeeds when
\* now >= due date + grace period (the default grace when none is given) and
\* fails before that instant; on success the invoice and its investment are
\* Defaulted, on failure both are unchanged.
C10_DefaultAtGraceBoundary ==
    \A c \in MarkInvoiceDefaultedCalls :
        (c.inv \in DOMAIN invoices /\ invoices[c.inv].status = "Funded") =>
            LET grace == IF c.grace < 0 THEN DEFAULT_GRACE_PERIOD ELSE c.grace
                r == Res(c)
            IN IF now >= invoices[c.inv].due_date + grace
               THEN /\ r.res = "Ok"
                    /\ r.st.invoices[c.inv].status = "Defaulted"
                    /\ \A k \in DOMAIN investments :
                          investments[k].invoice_id = c.inv
                              => r.st.investments[k].status = "Defaulted"
               ELSE /\ r.res # "Ok"
                    /\ Committed(r).invoices = invoices
                    /\ Committed(r).investments = investments

\* A Funded invoice with its investment, one second before the default grace
\* period ends.
C10_Witness ==
    \E i \in DOMAIN invoices : \E k \in DOMAIN investments :
        /\ invoices[i].status = "Funded"
        /\ investments[k].invoice_id = i
        /\ investments[k].status = "Active"
        /\ now = invoices[i].due_date + DEFAULT_GRACE_PERIOD - 1

\* The calls through which an invoice can come to be Defaulted.
DefaultingCalls ==
    MarkInvoiceDefaultedCalls \cup HandleDefaultCalls \cup CheckInvoiceExpirationCalls
    \cup CheckOverdueInvoicesCalls \cup CheckOverdueInvoicesGraceCalls
    \cup UpdateInvoiceStatusCalls

\* The grace period a call works with: the one it is given, the default one
\* when it is given none.
ApplicableGrace(c) == IF c.grace < 0 THEN DEFAULT_GRACE_PERIOD ELSE c.grace

\* C11: no public call (mark_invoice_defaulted, handle_default,
\* check_invoice_expiration, check_overdue_invoices, update_invoice_status) makes
\* an invoice Defaulted at a time earlier than its due date plus the applicable
\* grace period.
C11_NoDefaultBeforeGrace ==
    \A c \in DefaultingCalls : \A i \in DOMAIN invoices :
        (/\ Res(c).res = "Ok"
         /\ invoices[i].status # "Defaulted"
         /\ Res(c).st.invoices[i].status = "Defaulted")
        => now >= invoices[i].due_date + ApplicableGrace(c)

\* The payments that are applied: a positive amount, a transfer that goes
\* through and no callback of the token contract.
PaymentCalls ==
    {c \in SettleInvoiceCalls \cup ProcessPartialPaymentCalls :
        c.ok /\ c.nest.op = "none" /\ c.amt > 0}

Outstanding(invoice) == invoice.amount - invoice.total_paid

\* C12: a payment applied to a Funded invoice makes it Paid exactly when the
\* payment covers the outstanding balance; a smaller payment reduces the
\* outstanding balance by the payment and leaves the invoice Funded.
C12_PaidExactlyWhenCovered ==
    \A c \in PaymentCalls :
        (c.inv \in DOMAIN invoices /\ invoices[c.inv].status = "Funded") =>
            /\ Res(c).res = "Ok"
            /\ IF c.amt >= Outstanding(invoices[c.inv])
               THEN Res(c).st.invoices[c.inv].status = "Paid"
               ELSE /\ Res(c).st.invoices[c.inv].status = "Funded"
                    /\ Outstanding(Res(c).st.invoices[c.inv]) =
                           Outstanding(invoices[c.inv]) - c.amt

\* A Funded invoice on which a partial payment has been recorded, so that a
\* payment smaller than the invoice amount now covers the balance.
C12_Witness ==
    \E i \in DOMAIN invoices :
        /\ invoices[i].status = "Funded"
        /\ invoices[i].total_paid > 0
        /\ \E c \in PaymentCalls :
              c.inv = i /\ c.amt < invoices[i].amount /\ Res(c).res = "Ok"
                 /\ Res(c).st.invoices[i].status = "Paid"

\* The platform fee of a payment on a principal at the configured basis points.
ExpectedFee(principal, payment) ==
    IF payment > principal THEN ((payment - principal) * fee_bps) \div 10000 ELSE 0

\* The full settlements of an invoice that has an investment.
FullSettlements ==
    {c \in PaymentCalls :
        /\ c.inv \in DOMAIN invoices
        /\ invoices[c.inv].status = "Funded"
        /\ c.amt >= Outstanding(invoices[c.inv])
        /\ InvOfInvoice(St, c.inv) # {}}

\* C13: on full settlement the platform fee is (payment - principal) *
\* fee_bps / 10000 at the configured basis points, 0 when the payment does not
\* exceed the principal, and investor proceeds + platform fee = payment; the
\* same holds of calculate_profit for every pair of amounts.
C13_FeeFromProfit ==
    /\ \A c \in CalculateProfitCalls :
          /\ Res(c).st.payout[2] = ExpectedFee(c.amt, c.pay)
          /\ Res(c).st.payout[1] + Res(c).st.payout[2] = c.pay
    /\ \A c \in FullSettlements :
          /\ Res(c).res = "Ok"
          /\ Res(c).st.payout[2] =
                ExpectedFee(investments[MinOf(InvOfInvoice(St, c.inv))].amount, c.amt)
          /\ Res(c).st.payout[1] + Res(c).st.payout[2] = c.amt

\* A funded invoice under a fee that was configured to 333 basis points: the
\* settlement with 1000 on a principal of 800 has a profit of 200 and a fee of
\* 6 (6.66 truncated), the investor receives 994.
C13_Witness ==
    /\ fee_bps = 333
    /\ \E c \in FullSettlements : Res(c).st.payout = <<994, 6>>

\* The calls whose caller has authorized them.
Authorized(calls) == {c \in calls : c.signer = c.addr}

\* C14: the first create_dispute on an invoice succeeds and every later
\* create_dispute on it fails with DisputeAlreadyExists, whoever the caller is
\* and whatever the status of the dispute, and leaves the stored dispute as it
\* is.
C14_DisputeCreatedOnce ==
    \A c \in Authorized(CreateDisputeCalls) :
        c.inv \in DOMAIN invoices =>
            IF invoices[c.inv].dispute_status = "None"
            THEN (c.addr = invoices[c.inv].business /\ c.reason \in 1..500
                  /\ c.evidence \in 1..1000)
                 => /\ Res(c).res = "Ok"
                    /\ Res(c).st.invoices[c.inv].dispute_status = "Disputed"
                    /\ Res(c).st.invoices[c.inv].dispute.created_by = c.addr
            ELSE /\ Res(c).res = "DisputeAlreadyExists"
                 /\ Res(c).st.invoices = invoices

\* A dispute that the business created and that is past its first status, on
\* an invoice whose investor could ask for a dispute as well.
C14_Witness ==
    \E i \in DOMAIN invoices :
        /\ invoices[i].dispute_status \in {"UnderReview", "Resolved"}
        /\ invoices[i].dispute.created_by = invoices[i].business
        /\ invoices[i].investor = "inv1"

\* C15: the dispute status of every invoice only advances None -> Disputed ->
\* UnderReview -> Resolved, one step at a time and never backward.
C15_DisputeStatusForwardOnly ==
    [][\A i \in DOMAIN invoices :
          \/ invoices'[i].dispute_status = invoices[i].dispute_status
          \/ <<invoices[i].dispute_status, invoices'[i].dispute_status>> \in
                {<<"None", "Disputed">>, <<"Disputed", "UnderReview">>,
                 <<"UnderReview", "Resolved">>}]_vars

\* A dispute that went through all three steps and was resolved by the admin.
C15_Witness ==
    \E i \in DOMAIN invoices :
        /\ invoices[i].dispute_status = "Resolved"
        /\ invoices[i].dispute.resolved_by = verification_admin

\* The reviews and resolutions asked for by the admin.
ByAdmin(calls) ==
    {c \in Authorized(calls) : c.addr = verification_admin /\ c.inv \in DOMAIN invoices}

\* C16: put_dispute_under_review on an invoice with no dispute fails with
\* DisputeNotFound and resolve_dispute on a dispute still Disputed fails with
\* DisputeNotUnderReview; both leave the dispute status and record unchanged.
C16_OutOfOrderRejected ==
    /\ \A c \in ByAdmin(PutDisputeUnderReviewCalls) :
          invoices[c.inv].dispute_status = "None"
              => /\ Res(c).res = "DisputeNotFound"
                 /\ Res(c).st.invoices = invoices
    /\ \A c \in ByAdmin(ResolveDisputeCalls) :
          invoices[c.inv].dispute_status = "Disputed"
              => /\ Res(c).res = "DisputeNotUnderReview"
                 /\ Res(c).st.invoices = invoices

\* An admin, an invoice without a dispute and an invoice with a dispute that
\* is not yet under review.
C16_Witness ==
    /\ verification_admin # "none"
    /\ \E i, j \in DOMAIN invoices :
          /\ invoices[i].dispute_status = "None"
          /\ invoices[j].dispute_status = "Disputed"

\* The business of the invoice and the investor recorded on it.
Stakeholder(invoice, a) == a = invoice.business \/ a = invoice.investor

\* C17: create_dispute succeeds only for the business of the invoice or its
\* investor; any other creator fails, with DisputeNotAuthorized when the
\* invoice has no dispute yet, and no dispute is recorded; create_dispute on an
\* unknown invoice fails.
C17_OnlyStakeholdersDispute ==
    \A c \in Authorized(CreateDisputeCalls) :
        IF c.inv \notin DOMAIN invoices
        THEN Res(c).res # "Ok" /\ Res(c).st.invoices = invoices
        ELSE /\ Res(c).res = "Ok" => Stakeholder(invoices[c.inv], c.addr)
             /\ ~Stakeholder(invoices[c.inv], c.addr)
                   => /\ Res(c).res # "Ok"
                      /\ Res(c).st.invoices = invoices
                      /\ invoices[c.inv].dispute_status = "None"
                            => Res(c).res = "DisputeNotAuthorized"

\* A funded invoice without a dispute: its business and its investor may
\* dispute it, the admin is refused.
C17_Witness ==
    \E c \in Authorized(CreateDisputeCalls) :
        /\ c.inv \in DOMAIN invoices
        /\ invoices[c.inv].investor = "inv1"
        /\ c.addr = Admin
        /\ Res(c).res = "DisputeNotAuthorized"

\* C18: create_dispute accepts a reason of 1..500 and evidence of 1..1000
\* characters and rejects a reason of 0 or 501 with InvalidDisputeReason and
\* evidence of 0 or 1001 with InvalidDisputeEvidence; resolve_dispute rejects a
\* resolution of 0 or 501 characters with InvalidDisputeReason; a rejection
\* leaves the dispute state unchanged.
C18_DisputeTextBounds ==
    /\ \A c \in Authorized(CreateDisputeCalls) :
          (/\ c.inv \in DOMAIN invoices
           /\ invoices[c.inv].dispute_status = "None"
           /\ Stakeholder(invoices[c.inv], c.addr))
          => /\ (c.reason \in 1..500 /\ c.evidence \in 1..1000) => Res(c).res = "Ok"
             /\ (c.reason \notin 1..500 /\ c.evidence \in 1..1000)
                   => Res(c).res = "InvalidDisputeReason"
             /\ (c.reason \in 1..500 /\ c.evidence \notin 1..1000)
                   => Res(c).res = "InvalidDisputeEvidence"
             /\ (c.reason \notin 1..500 \/ c.evidence \notin 1..1000)
                   => Res(c).res # "Ok" /\ Res(c).st.invoices = invoices
    /\ \A c \in ByAdmin(ResolveDisputeCalls) :
          invoices[c.inv].dispute_status = "UnderReview"
          => IF c.resolution \in 1..500 THEN Res(c).res = "Ok"
             ELSE Res(c).res = "InvalidDisputeReason" /\ Res(c).st.invoices = invoices

\* A dispute stored with texts of the greatest accepted lengths.
C18_Witness ==
    \E i \in DOMAIN invoices :
        /\ invoices[i].dispute.reason = 500
        /\ invoices[i].dispute.evidence = 1000
        /\ invoices[i].dispute.resolution = 500

DisputeCalls == CreateDisputeCalls \cup PutDisputeUnderReviewCalls \cup ResolveDisputeCalls

\* C19: a dispute operation on an invoice changes only the dispute status and
\* record of that invoice: every other invoice, the lifecycle status of every
\* invoice and the status index lists are unchanged.
C19_DisputeFrame ==
    \A c \in DisputeCalls :
        /\ Res(c).st.idx = idx
        /\ DOMAIN Res(c).st.invoices = DOMAIN invoices
        /\ \A i \in DOMAIN invoices :
              /\ Res(c).st.invoices[i].status = invoices[i].status
              /\ i # c.inv => Res(c).st.invoices[i] = invoices[i]
              /\ [Res(c).st.invoices[i] EXCEPT
                     !.dispute_status = invoices[i].dispute_status,
                     !.dispute = invoices[i].dispute] = invoices[i]

\* Two invoices with a dispute each, one of them already under review.
C19_Witness ==
    \E i, j \in DOMAIN invoices :
        /\ invoices[i].dispute_status = "UnderReview"
        /\ invoices[j].dispute_status = "Disputed"
        /\ invoices[i].status # invoices[j].status

ActiveEntries(investment) ==
    {j \in DOMAIN investment.insurance : investment.insurance[j].active}

\* The calls that pass every check of add_investment_insurance but the one on
\* an active entry: authorized by the investor, on an Active investment, with
\* a coverage percentage in 1..100 and a positive premium.
InsurableCalls ==
    {c \in AddInvestmentInsuranceCalls :
        /\ c.investment \in DOMAIN investments
        /\ c.signer = investments[c.investment].investor
        /\ investments[c.investment].status = "Active"
        /\ c.pct \in 1..100
        /\ (investments[c.investment].amount * c.pct) \div 100 > 0}

\* C20: every investment has at most one active insurance entry; entries are
\* only appended or deactivated, never removed or reordered; an inactive entry
\* does not block new coverage; adding insurance to one investment leaves the
\* insurance list of every other investment unchanged.
C20_OneActiveInsurance ==
    /\ [](/\ \A k \in DOMAIN investments :
                Cardinality(ActiveEntries(investments[k])) <= 1
          /\ \A c \in InsurableCalls :
                ActiveEntries(investments[c.investment]) = {}
                    => /\ Res(c).res = "Ok"
                       /\ Len(Res(c).st.investments[c.investment].insurance) =
                              Len(investments[c.investment].insurance) + 1
          /\ \A c \in AddInvestmentInsuranceCalls : \A k \in DOMAIN investments :
                k # c.investment
                    => Res(c).st.investments[k].insurance = investments[k].insurance)
    /\ [][\A k \in DOMAIN investments :
            /\ Len(investments'[k].insurance) >= Len(investments[k].insurance)
            /\ \A j \in DOMAIN investments[k].insurance :
                  /\ [investments'[k].insurance[j] EXCEPT
                         !.active = investments[k].insurance[j].active]
                        = investments[k].insurance[j]
                  /\ investments'[k].insurance[j].active
                        => investments[k].insurance[j].active]_vars

\* Two investments: one with a claimed entry followed by an active one, the
\* other without insurance.
C20_Witness ==
    \E k1, k2 \in DOMAIN investments :
        /\ Len(investments[k1].insurance) = 2
        /\ ~investments[k1].insurance[1].active
        /\ investments[k1].insurance[2].active
        /\ investments[k2].insurance = << >>

\* The authorized calls on the stored investment.
OwnerCalls ==
    {c \in StoredInsuranceCalls :
        /\ c.investment \in DOMAIN investments
        /\ c.signer = investments[c.investment].investor}

\* C21: add_investment_insurance on an investment with an active insurance
\* entry fails and stores the investments exactly as they were; with inputs
\* that pass every other check (Active investment, percentage in 1..100,
\* positive coverage) the error is OperationNotAllowed.
C21_DuplicateInsuranceRejected ==
    \A c \in OwnerCalls :
        has_active_insurance(investments[c.investment])
            => /\ Res(c).res # "Ok"
               /\ Res(c).st.investments = investments
               /\ (/\ investments[c.investment].status = "Active"
                   /\ c.pct \in 1..100
                   /\ investments[c.investment].amount * c.pct >= 100)
                      => Res(c).res = "OperationNotAllowed"

\* An insured investment receives a second, valid submission from another
\* provider.
C21_Witness ==
    \E c \in OwnerCalls :
        /\ Len(investments[c.investment].insurance) = 1
        /\ investments[c.investment].insurance[1].active
        /\ investments[c.investment].insurance[1].provider # c.provider
        /\ Res(c).res = "OperationNotAllowed"

\* C22: add_investment_insurance succeeds only on an Active investment: on a
\* Withdrawn, Completed or Defaulted investment it fails with InvalidStatus, on
\* an unknown investment id with StorageKeyNotFound, and no entry is added.
C22_InsuranceOnlyOnActive ==
    /\ \A c \in StoredInsuranceCalls :
          /\ c.investment \notin DOMAIN investments
                => /\ Res(c).res = "StorageKeyNotFound"
                   /\ Res(c).st.investments = investments
          /\ Res(c).res = "Ok" => investments[c.investment].status = "Active"
    /\ \A c \in OwnerCalls :
          investments[c.investment].status # "Active"
                => /\ Res(c).res = "InvalidStatus"
                   /\ Res(c).st.investments = investments

\* A Withdrawn investment is refused a valid submission, and an unknown id is
\* refused too.
C22_Witness ==
    /\ \E c \in OwnerCalls :
          /\ investments[c.investment].status = "Withdrawn"
          /\ c.pct = 80
          /\ Res(c).res = "InvalidStatus"
    /\ \E c \in StoredInsuranceCalls : Res(c).res = "StorageKeyNotFound"

\* C23: on an Active investment a coverage percentage above 100 fails with
\* InvalidCoveragePercentage (the amount being positive), a percentage of 0
\* fails with InvalidAmount, and a non-positive amount fails with
\* InvalidAmount; no entry is added.
C23_InvalidInsuranceInputs ==
    \A c \in OwnerCalls :
        investments[c.investment].status = "Active"
            => /\ (c.pct > 100 /\ investments[c.investment].amount > 0)
                      => Res(c).res = "InvalidCoveragePercentage"
               /\ c.pct = 0 => Res(c).res = "InvalidAmount"
               /\ investments[c.investment].amount <= 0 => Res(c).res = "InvalidAmount"
               /\ (c.pct > 100 \/ c.pct = 0 \/ investments[c.investment].amount <= 0)
                      => Res(c).st.investments = investments

\* The three rejections of the tests: 150% and 0% on amount 1000, 150% on the
\* negative amount.
C23_Witness ==
    \/ /\ investments[1].amount = 1000
       /\ \E c, d \in OwnerCalls :
             /\ c.pct = 150 /\ Res(c).res = "InvalidCoveragePercentage"
             /\ d.pct = 0 /\ Res(d).res = "InvalidAmount"
    \/ /\ investments[1].amount < 0
       /\ investments[1].status = "Active"
       /\ \E c \in OwnerCalls : c.pct = 150 /\ Res(c).res = "InvalidAmount"

\* A product clamped at i128::MAX, and the amounts the insurance formulas give.
Clamped(x) == IF x > I128_MAX THEN I128_MAX ELSE x

ExpectedCoverage(amount, pct) == Clamped(amount * pct) \div 100

ExpectedPremium(coverage) == Clamped(coverage * 200) \div 10000

\* The stored insurance entries, each with the amount of its investment.
StoredEntries ==
    UNION {{<<investments[k].amount, investments[k].insurance[j]>> :
                j \in DOMAIN investments[k].insurance} : k \in DOMAIN investments}

C25_MinimumPremium ==
    /\ \A c \in OwnerCalls :
          (/\ investments[c.investment].status = "Active"
           /\ ~has_active_insurance(investments[c.investment])
           /\ c.pct = 1)
             => /\ investments[c.investment].amount = 500
                      => /\ Res(c).res = "Ok"
                         /\ LET ins == Res(c).st.investments[c.investment].insurance
                            IN /\ Len(ins) = Len(investments[c.investment].insurance) + 1
                               /\ ins[Len(ins)].coverage_amount = 5
                               /\ ins[Len(ins)].premium_amount = 1
                /\ investments[c.investment].amount = 50
                      => /\ Res(c).res = "InvalidAmount"
                         /\ Res(c).st.investments = investments
    /\ \A ae \in StoredEntries :
          /\ ae[2].premium_amount = calculate_premium(ae[1], ae[2].coverage_percentage)
          /\ ae[2].premium_amount > 0

\* The investment of 500 carries the entry at 1%.
C25_Witness ==
    \E ae \in StoredEntries :
        /\ ae[1] = 500
        /\ ae[2].coverage_percentage = 1
        /\ ae[2].coverage_amount = 5
        /\ ae[2].premium_amount = 1

\* C26: process_insurance_claim on an investment with an active entry
\* deactivates that entry and returns its (provider, coverage amount); a claim
\* with no active entry, a second claim included, returns no result and
\* changes nothing; after a claim a new add_insurance is accepted.
C26_ClaimDeactivates ==
    \A k \in DOMAIN investments :
        IF has_active_insurance(investments[k])
        THEN \E j \in DOMAIN investments[k].insurance :
                /\ investments[k].insurance[j].active
                /\ process_insurance_claim(investments[k]).claim =
                      <<investments[k].insurance[j].provider,
                        investments[k].insurance[j].coverage_amount>>
                /\ process_insurance_claim(investments[k]).investment =
                      [investments[k] EXCEPT !.insurance[j].active = FALSE]
                /\ process_insurance_claim(
                       process_insurance_claim(investments[k]).investment) =
                      [claim |-> << >>,
                       investment |-> process_insurance_claim(investments[k]).investment]
                /\ \A p \in Providers :
                      add_insurance(process_insurance_claim(investments[k]).investment,
                                    p, 50, 1).res = "Ok"
                /\ \A c \in ProcessInsuranceClaimCalls :
                      c.investment = k
                         => /\ Res(c).res = "Ok"
                            /\ Res(c).st.investments =
                                  [investments EXCEPT ![k].insurance[j].active = FALSE]
        ELSE /\ process_insurance_claim(investments[k]) =
                   [claim |-> << >>, investment |-> investments[k]]
             /\ \A c \in ProcessInsuranceClaimCalls :
                   c.investment = k => Res(c).st.investments = investments

\* An investment whose first entry was claimed and which was insured again by
\* the other provider.
C26_Witness ==
    /\ Len(investments[1].insurance) = 2
    /\ ~investments[1].insurance[1].active
    /\ investments[1].insurance[2].active
    /\ investments[1].insurance[1].provider # investments[1].insurance[2].provider
    /\ investments[1].amount = 1000

\* The creation calls that reach the validation of the invoice data:
\* store_invoice, and upload_invoice signed by a verified business.
CreationCalls ==
    StoreInvoiceCalls \cup
    {c \in UploadInvoiceCalls : c.signer = c.addr /\ c.bizver}

\* C27: invoice creation succeeds only with amount > 0, a due date strictly
\* after the ledger time and a non-empty description; otherwise it fails with
\* InvalidAmount, InvoiceDueDateInvalid or InvalidDescription and stores no
\* invoice and no index entry; on success the invoice is Pending and in the
\* Pending index.
C27_InvoiceCreationValidated ==
    \A c \in CreationCalls :
        /\ c.amt <= 0 => Res(c).res = "InvalidAmount"
        /\ (c.amt > 0 /\ c.due <= now) => Res(c).res = "InvoiceDueDateInvalid"
        /\ (c.amt > 0 /\ c.due > now /\ c.desc = 0) => Res(c).res = "InvalidDescription"
        /\ Res(c).res # "Ok"
              => Res(c).st.invoices = invoices /\ Res(c).st.idx = idx
        /\ Res(c).res = "Ok"
              => /\ c.amt > 0 /\ c.due > now /\ c.desc # 0
                 /\ Len(Res(c).st.invoices) = Len(invoices) + 1
                 /\ Res(c).st.invoices[Len(invoices) + 1].status = "Pending"
                 /\ Res(c).st.invoices[Len(invoices) + 1].amount = c.amt
                 /\ Res(c).st.invoices[Len(invoices) + 1].due_date = c.due
                 /\ Contains(Res(c).st.idx["Pending"], Len(invoices) + 1)

\* An invoice was created while its due date was ahead; at that due date the
\* same submission is refused, as is one without an amount.
C27_Witness ==
    /\ Len(invoices) = 1
    /\ now >= invoices[1].due_date
    /\ \E c \in CreationCalls :
          /\ c.due = invoices[1].due_date
          /\ Res(c).res = "InvoiceDueDateInvalid"
    /\ \E c \in CreationCalls : Res(c).res = "InvalidAmount"

\* The calls of the entry points of the invoice life cycle.
EntryCalls ==
    InitializeAdminCalls \cup StoreInvoiceCalls \cup UploadInvoiceCalls \cup
    VerifyInvoiceCalls \cup CancelInvoiceCalls \cup UpdateInvoiceStatusCalls \cup
    PlaceBidCalls \cup WithdrawBidCalls \cup CleanupExpiredBidsCalls \cup
    AcceptBidCalls \cup AcceptBidAndFundCalls \cup ReleaseEscrowFundsCalls \cup
    RefundEscrowFundsCalls \cup SettleInvoiceCalls \cup ProcessPartialPaymentCalls \cup
    HandleDefaultCalls \cup MarkInvoiceDefaultedCalls \cup CheckInvoiceExpirationCalls

InvestorBidCalls == {c \in PlaceBidCalls : c.signer = c.addr /\ c.allowed}

\* C29: place_bid stores a new bid, Placed and expiring a fixed window after
\* the placement time, only when the amount is > 0, the invoice exists and is
\* Verified, and the investor's verification record is Verified with the
\* amount within its limit; otherwise it fails (InvalidAmount, InvoiceNotFound,
\* InvalidStatus, BusinessNotVerified for no or a rejected record,
\* KYCAlreadyPending for a pending record) and no bid is stored.
C29_PlaceBidValidated ==
    \A c \in InvestorBidCalls :
        /\ c.amt <= 0 => Res(c).res = "InvalidAmount"
        /\ (c.amt > 0 /\ c.inv \notin DOMAIN invoices) => Res(c).res = "InvoiceNotFound"
        /\ (c.amt > 0 /\ c.inv \in DOMAIN invoices)
              => IF invoices[c.inv].status # "Verified"
                 THEN Res(c).res = "InvalidStatus"
                 ELSE /\ c.ver \in {"None", "Rejected"}
                            => Res(c).res = "BusinessNotVerified"
                      /\ c.ver = "Pending" => Res(c).res = "KYCAlreadyPending"
                      /\ (c.ver = "Verified" /\ c.amt > c.limit)
                            => Res(c).res = "InvalidAmount"
                      /\ (c.ver = "Verified" /\ c.amt <= c.limit) => Res(c).res = "Ok"
        /\ Res(c).res # "Ok" => Res(c).st.bids = bids
        /\ Res(c).res = "Ok"
              => /\ c.amt > 0
                 /\ c.inv \in DOMAIN invoices
                 /\ invoices[c.inv].status = "Verified"
                 /\ c.ver = "Verified" /\ c.amt <= c.limit
                 /\ Len(Res(c).st.bids) = Len(bids) + 1
                 /\ Res(c).st.bids[Len(bids) + 1] =
                       [invoice_id |-> c.inv, investor |-> c.addr, bid_amount |-> c.amt,
                        expected_return |-> c.ret, timestamp |-> now, status |-> "Placed",
                        expiration_timestamp |-> now + DEFAULT_BID_TTL]

\* A bid was placed on the Verified invoice, and a further bid by an investor
\* whose record is pending, and one above the investor's limit, are refused.
C29_Witness ==
    /\ \E b \in DOMAIN bids :
          /\ bids[b].status = "Placed"
          /\ bids[b].expiration_timestamp = bids[b].timestamp + DEFAULT_BID_TTL
    /\ \E c, d \in InvestorBidCalls :
          /\ Res(c).res = "KYCAlreadyPending"
          /\ d.ver = "Verified" /\ d.amt > d.limit /\ d.amt > 0
          /\ Res(d).res = "InvalidAmount"

PlacedOn(i) == {b \in DOMAIN bids : bids[b].invoice_id = i /\ bids[b].status = "Placed"}

Orders(set) ==
    {p \in [1..Cardinality(set) -> set] : \A j, k \in DOMAIN p : j # k => p[j] # p[k]}

SameCost(a, b) ==
    bids[a].expected_return * bids[b].bid_amount
        = bids[b].expected_return * bids[a].bid_amount

\* C31: rank_bids is a total order of the non-terminal bids of an invoice:
\* lower expected return relative to the bid amount first, then the earlier
\* placement, then the lower identifier; the result is the same for every
\* order in which the bids are stored, and get_best_bid is its first element,
\* or none.
C31_RankingDeterministic ==
    \A i \in DOMAIN invoices :
        /\ rank_bids(St, i) \in Orders(PlacedOn(i))
        /\ \A j, k \in DOMAIN rank_bids(St, i) :
              j < k =>
                 LET a == rank_bids(St, i)[j]
                     b == rank_bids(St, i)[k]
                 IN \/ bids[a].expected_return * bids[b].bid_amount
                          < bids[b].expected_return * bids[a].bid_amount
                    \/ SameCost(a, b) /\ bids[a].timestamp < bids[b].timestamp
                    \/ SameCost(a, b) /\ bids[a].timestamp = bids[b].timestamp /\ a < b
        /\ \A p \in Orders(PlacedOn(i)) : sort_bids(St, p) = rank_bids(St, i)
        /\ \A c \in GetRankedBidsCalls :
              c.inv = i =>
                 /\ c.op = "get_ranked_bids" => Res(c).st.ranked = rank_bids(St, i)
                 /\ c.op = "get_best_bid" =>
                       Res(c).st.ranked =
                           IF PlacedOn(i) = {} THEN << >> ELSE <<rank_bids(St, i)[1]>>

\* Three rankable bids, two of them with the same cost and placement time, and
\* a ranking that differs from the order of storage.
C31_Witness ==
    /\ Cardinality(PlacedOn(1)) = 3
    /\ rank_bids(St, 1) # <<1, 2, 3>>
    /\ \E a, b \in PlacedOn(1) :
          a # b /\ SameCost(a, b) /\ bids[a].timestamp = bids[b].timestamp
    /\ \E a, b \in PlacedOn(1) : ~SameCost(a, b)

\* ---- Category and tag indices ----

ListSet(list) == {list[k] : k \in DOMAIN list}

EachOnce(list) == \A j, k \in DOMAIN list : list[j] = list[k] => j = k

\* C32: after any sequence of store_invoice, add_invoice_tag,
\* remove_invoice_tag (and update_invoice_category), the list returned by
\* get_invoices_by_tag(t) holds exactly the invoices that carry tag t, each
\* once, and the list returned by get_invoices_by_category(g) holds exactly
\* the invoices whose category is g, each once.
C32_TagAndCategoryIndexExact ==
    /\ \A t \in Tags :
        /\ EachOnce(tag_idx[t])
        /\ ListSet(tag_idx[t]) =
               {i \in DOMAIN invoices : Contains(invoices[i].tags, t)}
    /\ \A g \in InvoiceCategory :
        /\ EachOnce(category_idx[g])
        /\ ListSet(category_idx[g]) =
               {i \in DOMAIN invoices : invoices[i].category = g}

\* Two invoices; the first one got the tag "tech" and the category Products
\* after the second one was stored, and no invoice carries "urgent".
C32_Witness ==
    /\ Len(invoices) = 2
    /\ tag_idx["tech"] = <<2, 1>>
    /\ tag_idx["urgent"] = << >>
    /\ category_idx["Products"] = <<2, 1>>
    /\ category_idx["Services"] = << >>

\* C33: the status list that contains an invoice is the list of its stored
\* status: every stored invoice is listed under its own status and under no
\* other, so a Funded invoice is never returned by get_available_invoices
\* (the Verified list).
C33_IndexFollowsStatus ==
    \A i \in DOMAIN invoices :
        \A s \in InvoiceStatus :
            Contains(idx[s], i) <=> invoices[i].status = s

\* ---- Expired bids ----

PastExpiration(bid) == now > bid.expiration_timestamp

C35_AcceptBidSameInvoice ==
    \A c \in AcceptBidCalls :
        (c.inv \in DOMAIN invoices /\ c.bid \in DOMAIN bids /\ Res(c).res = "Ok")
        => LET T == Res(c).st
           IN /\ bids[c.bid].invoice_id = c.inv
              /\ T.bids[c.bid].status = "Accepted"
              /\ T.invoices[c.inv].status = "Funded"
              /\ DOMAIN T.escrows \ DOMAIN escrows = {c.inv}
              /\ \A k \in DOMAIN T.investments \ DOMAIN investments :
                    T.investments[k].invoice_id = c.inv
              /\ c.signer = invoices[bids[c.bid].invoice_id].business

\* The state a call is in when it reaches the value transfer.
ReachedTransfer(c) == Dispatch(St, [c EXCEPT !.probe = TRUE])

\* C37: every entry point that moves funds (accept_bid, accept_bid_and_fund,
\* release_escrow_funds, refund_escrow_funds, settle_invoice and
\* process_partial_payment) holds the payment guard when it reaches the
\* transfer, so an entry into a guarded operation nested in that transfer is
\* rejected.
C37_FundMovingCallsGuarded ==
    \A c \in GuardedCalls \cup ProcessPartialPaymentCalls :
        /\ ReachedTransfer(c).res = "AtTransfer"
              => ReachedTransfer(c).st.nested = "held"
        /\ (c.nest.op \in GuardedOps /\ Res(c).st.nested # "none")
              => Res(c).st.nested = "OperationNotAllowed"

\* ---- Authorization ----

\* The calls of the entry points that change stored state on behalf of a
\* named actor, store_invoice also as signed by somebody else than the
\* business it names.
ActorCalls ==
    StoreInvoiceCalls \cup {[c EXCEPT !.signer = Anyone] : c \in StoreInvoiceCalls}
    \cup UploadInvoiceCalls \cup VerifyInvoiceCalls \cup CancelInvoiceCalls
    \cup UpdateInvoiceStatusCalls \cup PlaceBidCalls \cup WithdrawBidCalls
    \cup AcceptBidCalls

\* The actor a successful call acts for.
NamedActor(c) ==
    CASE c.op \in {"store_invoice", "upload_invoice", "place_bid"} -> c.addr
      [] c.op \in {"verify_invoice", "update_invoice_status"} -> admin
      [] c.op \in {"cancel_invoice", "accept_bid"} -> invoices[c.inv].business
      [] c.op = "withdraw_bid" -> bids[c.bid].investor

\* C36: no state-changing entry point is callable without the authorization
\* of its named actor: a call of store_invoice, upload_invoice, verify_invoice,
\* cancel_invoice, update_invoice_status, place_bid, withdraw_bid or accept_bid
\* succeeds (and so changes stored state) only when it is signed by the
\* business, the administrator, the invoice's owner or the bid's investor it
\* acts for.
C36_NoMutationWithoutAuthorization ==
    \A c \in ActorCalls : Res(c).res = "Ok" => c.signer = NamedActor(c)

\* ---- verify_invoice ----

\* C38: verify_invoice is admin-only; on a Pending invoice it moves the invoice
\* from the Pending list to the Verified list; and on a Funded invoice whose
\* escrow is held, the administrator's verify_invoice succeeds and leaves the
\* escrow Released.
C38_VerifyReleasesFundedEscrow ==
    \A c \in VerifyInvoiceCalls :
        /\ Res(c).res = "Ok" => (admin # "none" /\ c.signer = admin)
        /\ (c.inv \in DOMAIN invoices /\ c.signer = admin
            /\ invoices[c.inv].status = "Pending")
           => /\ Res(c).res = "Ok"
              /\ Res(c).st.invoices[c.inv].status = "Verified"
              /\ ~Contains(Res(c).st.idx["Pending"], c.inv)
              /\ Contains(Res(c).st.idx["Verified"], c.inv)
        /\ (c.inv \in DOMAIN invoices /\ c.signer = admin
            /\ invoices[c.inv].status = "Funded"
            /\ c.inv \in DOMAIN escrows /\ escrows[c.inv].status = "Funded")
           => /\ Res(c).res = "Ok"
              /\ Res(c).st.escrows[c.inv].status = "Released"

\* ---- Funding ----

AcceptedBidsOf(i) ==
    {b \in DOMAIN bids : bids[b].invoice_id = i /\ bids[b].status = "Accepted"}

\* C39: every invoice with status Funded has exactly one Accepted bid that
\* refers to it, an escrow record keyed by it and an investment record for
\* it; and an invoice has an escrow record exactly when it has an investment
\* record.
C39_FundedOnlyByAcceptance ==
    \A i \in DOMAIN invoices :
        /\ invoices[i].status = "Funded"
           => /\ Cardinality(AcceptedBidsOf(i)) = 1
              /\ i \in DOMAIN escrows
              /\ InvOfInvoice(St, i) # {}
        /\ i \in DOMAIN escrows <=> InvOfInvoice(St, i) # {}

\* ---- Administrator ----

\* C40: there is a single administrator: the address get_current_admin
\* returns (consulted by verify_invoice, transfer_admin and set_platform_fee)
\* and the address get_admin returns (consulted by verify_investor, the
\* dispute review and the backup functions) are the same after any sequence
\* of initialize_admin, transfer_admin and set_admin; and initialize_admin
\* fails with AdminAlreadyInitialized once an administrator is set.
C40_SingleAdministrator ==
    /\ admin = verification_admin
    /\ \A c \in AdminCalls :
          (c.op = "initialize_admin" /\ admin # "none")
          => Res(c).res = "AdminAlreadyInitialized"

====
